---- MODULE Spec2Model ----
(***************************************************************************)
(* A model of the AI coding assistant extension:                           *)
(*   - the step executor of ChatViewProvider (executeStep) with the        *)
(*     FileOperationManager and CommandExecutor collaborators,             *)
(*   - the EmbeddingService cache and the WorkspaceManager indexer.        *)
(* Asynchronous methods are cut at the awaits that wait for the outside    *)
(* world (the user's answer, the file system, the embedding provider);     *)
(* the code between two such awaits runs without interleaving, as on the   *)
(* single-threaded extension host.                                         *)
(***************************************************************************)
EXTENDS Integers, Sequences, FiniteSets, TLC

VARIABLES
    \* ---- ChatViewProvider / executor
    pendingSteps,    \* ChatViewProvider.pendingSteps: sequence of ActionStep
    inv,             \* executeStep invocations in flight: slot -> frame
    started,         \* number of executeStep messages received so far
    out,             \* collaborator calls and reports of the last step
    workspaceOpen,   \* vscode.workspace.workspaceFolders is non-empty
    \* ---- the workspace on disk
    disk,            \* relative path of a file -> whether it can be read, and its text
    projectFiles,    \* well-known project file -> "absent" or its content
    edits,           \* number of changes made to the workspace so far
    \* ---- EmbeddingService
    encoder,         \* whether the tokenizer was initialised
    embeddingCache,  \* EmbeddingService.embeddingCache: cache key -> vector
    providerCalls,   \* texts for which a request was sent / an embedding returned
    \* ---- WorkspaceManager
    vectorDB,        \* the records added to the SimpleVectorDB, in order
    fileChunks,      \* WorkspaceManager.fileChunks: relative path -> chunks
    indexedFiles,    \* WorkspaceManager.indexedFiles
    projectMetadata, \* WorkspaceManager.projectMetadata: key -> value
    pass,            \* the indexWorkspace invocation in flight, or idle
    overlap,         \* an indexWorkspace invocation started while pass is in flight
    queries,         \* getRelevantCode invocations in flight: slot -> frame
    calls,           \* number of indexWorkspace and getRelevantCode calls so far
    \* ---- chunkFile on its own
    chunkInput,      \* the text handed to chunkFile
    chunked,         \* what the calls of chunkFile on that text returned, in order
    \* ---- parseSteps on its own
    parseInput,      \* the response handed to parseSteps
    parsed,          \* what the calls of parseSteps on that text returned, in order
    \* ---- the chat session
    messages,        \* ChatViewProvider.messages: the entries of the chat view
    claudeMessages,  \* ClaudeService.messages: the conversation sent to the model
    turns,           \* handleUserQuery invocations: turn -> frame
    chatOut          \* calls and reports of the last step of the session

execVars == <<pendingSteps, inv, started>>

diskVars == <<disk, projectFiles, edits>>

indexVars == <<encoder, embeddingCache, providerCalls, vectorDB, fileChunks,
               indexedFiles, projectMetadata, pass, overlap, queries, calls>>

chunkVars == <<chunkInput, chunked>>

parseVars == <<parseInput, parsed>>

chatVars == <<messages, claudeMessages, turns, chatOut>>

vars == <<pendingSteps, inv, started, out, workspaceOpen, disk, projectFiles, edits,
          encoder, embeddingCache, providerCalls, vectorDB, fileChunks, indexedFiles,
          projectMetadata, pass, overlap, queries, calls, chunkInput, chunked, parseInput, parsed,
          messages, claudeMessages, turns, chatOut>>

(***************************************************************************)
(* Bounds of the model.                                                    *)
(***************************************************************************)
MaxSteps == 2        \* steps in a plan
MaxExec == 2         \* executeStep messages per behaviour
MaxInFlight == 2     \* executeStep invocations suspended at the same time

(***************************************************************************)
(* ActionStep (claudeService.ts).  An id is the sequence of its pieces, so *)
(* that `${step.id}-completed` is an append that can be repeated.  The     *)
(* k-th step of a plan carries the id "k", as the system prompt asks.      *)
(***************************************************************************)
StepId(k) == <<ToString(k)>>

UnknownId == <<"none">>

CompletedId(id) == id \o <<"-completed">>

\* the payloads parseSteps can deliver: '' is the default of a missing field
StepPayloads ==
    {[actionType |-> "terminal", command |-> c, filePath |-> "", fileContent |-> ""] :
        c \in {"ls", ""}}
    \cup
    {[actionType |-> "file", command |-> "", filePath |-> "a.txt", fileContent |-> c] :
        c \in {"x", ""}}
    \cup
    {[actionType |-> "file", command |-> "", filePath |-> "", fileContent |-> "x"]}
    \cup
    {[actionType |-> "folder", command |-> "", filePath |-> p, fileContent |-> ""] :
        p \in {"d", ""}}

ActionStep(k, s) ==
    [id |-> StepId(k), description |-> "step", actionType |-> s.actionType,
     command |-> s.command, filePath |-> s.filePath, fileContent |-> s.fileContent]

Plans ==
    UNION {{[k \in 1..len |-> ActionStep(k, f[k])] : f \in [1..len -> StepPayloads]} :
              len \in 0..MaxSteps}

Slots == 1..MaxInFlight

\* the frame of one executeStep invocation: where it is suspended, the
\* stepId it was called with (id), the step it found (its index in
\* pendingSteps), and what the preview answered.
\* The local `step` is a reference to an object of the array: when
\* this.pendingSteps is assigned another array, the invocation keeps the
\* object, which is then held in the frame itself (object, <<>> before).
IdleFrame ==
    [pc |-> "idle", id |-> <<>>, step |-> 0, kind |-> "none", result |-> "none",
     object |-> <<>>]

(***************************************************************************)
(* out holds what the last handler step did to its collaborators, in       *)
(* order: one record per call, answer or report.  i is the invocation's    *)
(* slot, step the index of the step it found (0: none).                    *)
(***************************************************************************)
Event(op, i, step, arg) == [op |-> op, i |-> i, step |-> step, arg |-> arg]

\* a variant of Missing that takes every value for a payload
NeverMissing(value) == FALSE

\* !step.command, !step.filePath, !step.fileContent: the empty string
Missing(value) == Len(value) = 0

\* the step an invocation holds
StepHeld(frame, steps) == IF frame.object = <<>> THEN steps[frame.step] ELSE frame.object[1]

\* this.pendingSteps = ...: the invocations in flight keep their objects
Detach(frame, steps) ==
    IF frame.pc = "idle" \/ frame.object # <<>> THEN frame
    ELSE [frame EXCEPT !.object = <<steps[frame.step]>>]

\* pendingSteps.find(s => s.id === stepId): the first match, 0 for undefined
Find(steps, stepId) ==
    LET S == {k \in DOMAIN steps : steps[k].id = stepId}
    IN  IF S = {} THEN 0 ELSE CHOOSE k \in S : \A j \in S : k <= j

\* the completed step is added to the list beside the pending one
CompletedCopyAppended(steps, k) == Append(steps, [steps[k] EXCEPT !.id = CompletedId(@)])

\* step.id = `${step.id}-completed`
MarkCompleted(steps, k) == [steps EXCEPT ![k].id = CompletedId(@)]

\* a variant of Confirmed that takes any pressed button for a confirmation
ConfirmedAnyButton(result) == result \in {"Yes", "No"}

\* previewFileContent: return result === 'Yes'
Confirmed(result) == result = "Yes"

\* a variant of Fail that marks the step as in a finally block
FailMarksCompleted(i, k, events, msg) ==
    /\ out' = events \o <<Event("showErrorMessage", i, k, msg)>>
    /\ inv' = [inv EXCEPT ![i] = IdleFrame]
    /\ pendingSteps' = IF k = 0 THEN pendingSteps ELSE MarkCompleted(pendingSteps, k)

\* the catch of executeStep: console.error and showErrorMessage, nothing else
Fail(i, k, events, msg) ==
    /\ out' = events \o <<Event("showErrorMessage", i, k, msg)>>
    /\ inv' = [inv EXCEPT ![i] = IdleFrame]
    /\ UNCHANGED pendingSteps

\* the end of the try block: mark the step completed and update the webview
Complete(i, k, events) ==
    /\ pendingSteps' = IF inv[i].object = <<>> THEN MarkCompleted(pendingSteps, k)
                       ELSE pendingSteps
    /\ out' = events \o <<Event("completed", i, k,
                                 IF inv[i].object = <<>> THEN pendingSteps[k].id
                                 ELSE inv[i].object[1].id)>>
    /\ inv' = [inv EXCEPT ![i] = IdleFrame]

\* the invocation is suspended in an await
Suspend(i, frame, events) ==
    /\ out' = events
    /\ inv' = [inv EXCEPT ![i] = frame]
    /\ UNCHANGED pendingSteps

(***************************************************************************)
(* executeStep(stepId), from the message to its first await on the outside *)
(* world.  executeCommand sends the text to the terminal and resolves at   *)
(* once, so a terminal step runs to its completion here.                   *)
(***************************************************************************)
ExecuteStep(i, stepId) ==
    /\ inv[i].pc = "idle"
    /\ \A j \in Slots : j < i => inv[j].pc # "idle"
    /\ started < MaxExec
    /\ started' = started + 1
    /\ UNCHANGED workspaceOpen
    /\ LET k == Find(pendingSteps, stepId)
           begin == <<Event("executeStep", i, k, stepId)>>
       IN  IF k = 0
           THEN Fail(i, 0, begin, "Step not found")
           ELSE LET step == pendingSteps[k]
                IN  CASE step.actionType = "terminal" ->
                           IF Missing(step.command)
                           THEN Fail(i, k, begin, "No command specified for terminal action")
                           ELSE Complete(i, k,
                                    begin \o <<Event("executeCommand", i, k, step.command)>>)
                      [] step.actionType = "file" ->
                           IF Missing(step.filePath) \/ Missing(step.fileContent)
                           THEN Fail(i, k, begin, "Missing file path or content for file action")
                           ELSE Suspend(i, [pc |-> "preview", id |-> stepId, step |-> k, kind |-> "file",
                                            result |-> "none", object |-> <<>>],
                                    begin \o <<Event("previewFileContent", i, k, step.filePath)>>)
                      [] step.actionType = "folder" ->
                           IF Missing(step.filePath)
                           THEN Fail(i, k, begin, "No path specified for folder action")
                           ELSE IF ~workspaceOpen
                           THEN Fail(i, k,
                                    begin \o <<Event("createDirectory", i, k, step.filePath)>>,
                                    "No workspace folder open")
                           ELSE Suspend(i, [pc |-> "access", id |-> stepId, step |-> k, kind |-> "folder",
                                            result |-> "none", object |-> <<>>],
                                    begin \o <<Event("createDirectory", i, k, step.filePath)>>)

(***************************************************************************)
(* previewFileContent answers (or throws while opening the preview), and   *)
(* executeStep goes on to its next await.  "dismissed": the message was    *)
(* closed and showInformationMessage gave undefined.                       *)
(***************************************************************************)
PreviewResults == {"Yes", "No", "dismissed", "throw"}

PreviewAnswer(i, result) ==
    /\ inv[i].pc = "preview"
    /\ UNCHANGED <<started, workspaceOpen>>
    /\ LET k == inv[i].step
           step == StepHeld(inv[i], pendingSteps)
           answer == <<Event("previewResult", i, k, result)>>
       IN  IF result = "throw"
           THEN Fail(i, k, answer, "preview failed")
           ELSE IF Confirmed(result)
           THEN IF ~workspaceOpen
                THEN Fail(i, k,
                         answer \o <<Event("createOrUpdateFile", i, k, step.filePath)>>,
                         "No workspace folder open")
                ELSE Suspend(i, [inv[i] EXCEPT !.pc = "access", !.result = result],
                         answer \o <<Event("createOrUpdateFile", i, k, step.filePath)>>)
           ELSE Complete(i, k, answer)

(***************************************************************************)
(* ensureDirectoryExists answers: the directory was there ("exists"), was  *)
(* made by mkdir ("made"), or mkdir failed ("failed").  createDirectory    *)
(* then returns; createOrUpdateFile goes on to writeFileSync, which writes *)
(* or throws, and awaits the opening of the written file.                  *)
(***************************************************************************)
DirectoryOutcomes == {"exists", "made", "failed"}

EnsureDirectoryExists(i, outcome, writeOk) ==
    /\ inv[i].pc = "access"
    /\ UNCHANGED <<started, workspaceOpen>>
    /\ LET k == inv[i].step
           step == StepHeld(inv[i], pendingSteps)
           made == IF outcome = "made" THEN <<Event("mkdir", i, k, step.filePath)>> ELSE <<>>
       IN  IF outcome = "failed"
           THEN Fail(i, k, <<>>, "mkdir failed")
           ELSE IF inv[i].kind = "folder"
           THEN Complete(i, k, made)
           ELSE IF writeOk
           THEN Suspend(i, [inv[i] EXCEPT !.pc = "open"],
                    made \o <<Event("writeFileSync", i, k, step.filePath)>>)
           ELSE Fail(i, k, made, "write failed")

\* createOrUpdateFile: openTextDocument / showTextDocument of the written file
OpenWritten(i, ok) ==
    /\ inv[i].pc = "open"
    /\ UNCHANGED <<started, workspaceOpen>>
    /\ IF ok
       THEN Complete(i, inv[i].step, <<>>)
       ELSE Fail(i, inv[i].step, <<>>, "open failed")

(***************************************************************************)
(* Text.  A string is the sequence of its UTF-16 code units.               *)
(***************************************************************************)
NewLine == 10

Min(a, b) == IF a <= b THEN a ELSE b

\* the lines of the piece text[from..to], by halves: the last line of the
\* first half and the first line of the second half are one line
RECURSIVE SplitRange(_, _, _)
SplitRange(text, from, to) ==
    IF from > to THEN << <<>> >>
    ELSE IF from = to
    THEN IF text[from] = NewLine THEN << <<>>, <<>> >> ELSE << <<text[from]>> >>
    ELSE LET mid == (from + to) \div 2
             left == SplitRange(text, from, mid)
             right == SplitRange(text, mid + 1, to)
         IN  SubSeq(left, 1, Len(left) - 1)
                 \o << left[Len(left)] \o right[1] >>
                 \o SubSeq(right, 2, Len(right))

\* content.split('\n'): the lines, at least one
Split(text) == SplitRange(text, 1, Len(text))

\* lines.join('\n')
RECURSIVE Join(_)
Join(lines) ==
    IF lines = <<>> THEN <<>>
    ELSE IF Len(lines) = 1 THEN lines[1]
    ELSE lines[1] \o <<NewLine>> \o Join(Tail(lines))

(***************************************************************************)
(* EmbeddingService.getCacheKey: hash = ((hash << 5) - hash) + char, then  *)
(* hash & hash, for every character: 31 * hash + char in 32-bit two's      *)
(* complement.  The hash is kept as two 16-bit halves so that no           *)
(* intermediate value leaves the range of 32-bit integers.                 *)
(***************************************************************************)
Half == 65536

HashStep(h, char) ==
    LET low == h[2] * 31 + char
        high == h[1] * 31 + (low \div Half)
    IN  <<high % Half, low % Half>>

\* the loop over the characters from..to, with the hash so far: the first
\* half of them, then the second half
RECURSIVE HashRange(_, _, _, _)
HashRange(text, from, to, hash) ==
    IF from > to THEN hash
    ELSE IF from = to THEN HashStep(hash, text[from])
    ELSE LET mid == (from + to) \div 2
             half == HashRange(text, from, mid, hash)
         IN  IF half[1] >= 0 THEN HashRange(text, mid + 1, to, half) ELSE half

\* the loop from character i on, with the hash so far
HashFrom(text, i, hash) == HashRange(text, i, Len(text), hash)

\* the signed 32-bit value of the two halves
ToInt32(h) == IF h[1] >= Half \div 2 THEN (h[1] - Half) * Half + h[2] ELSE h[1] * Half + h[2]

\* hash.toString(): the decimal numeral, one per integer
getCacheKey(text) == ToInt32(HashFrom(text, 1, <<0, 0>>))

(***************************************************************************)
(* EmbeddingService.truncateText.  Without a tokenizer the text is cut to  *)
(* maxTokens * 4 characters; with one, to maxTokens tokens.  The tokenizer *)
(* is taken to give one token per character.                               *)
(***************************************************************************)
MaxTokens == 8000

Encode(text) == text

Decode(tokens) == tokens

truncateText(text, maxTokens, enc) ==
    IF ~enc
    THEN SubSeq(text, 1, Min(Len(text), maxTokens * 4))
    ELSE LET tokens == Encode(text)
         IN  IF Len(tokens) <= maxTokens THEN text
             ELSE Decode(SubSeq(tokens, 1, maxTokens))

(***************************************************************************)
(* Vectors.  The provider's embedding of a text is known only by the text  *)
(* it was computed for; the fallback is new Array(1536).fill(0).           *)
(***************************************************************************)
EmbeddingDim == 1536

FallbackDim == 1536

ProviderEmbedding(text) == [dim |-> EmbeddingDim, zero |-> FALSE, of |-> text]

ZeroVector == [dim |-> FallbackDim, zero |-> TRUE, of |-> <<>>]

(***************************************************************************)
(* WorkspaceManager.chunkFile: windows of chunkSize lines, each starting   *)
(* chunkSize - overlap lines after the one before.  Line numbers are 0     *)
(* based, as in the code.                                                  *)
(***************************************************************************)
ChunkSize == 50

Overlap == 10

StrideWithoutOverlap == ChunkSize

StrideWithGap == ChunkSize + Overlap

\* i += chunkSize - overlap
Stride == ChunkSize - Overlap

LastWindowIgnored(endLine, lines) == FALSE

\* if (endLine >= lines.length) break
LastWindow(endLine, lines) == endLine >= Len(lines)

RECURSIVE ChunksFrom(_, _, _)
ChunksFrom(lines, i, filePath) ==
    IF i >= Len(lines) THEN <<>>
    ELSE LET endLine == Min(i + ChunkSize, Len(lines))
             chunk == [filePath |-> filePath,
                       content |-> Join(SubSeq(lines, i + 1, endLine)),
                       startLine |-> i,
                       endLine |-> endLine - 1]
         IN  IF LastWindow(endLine, lines) THEN <<chunk>>
             ELSE <<chunk>> \o ChunksFrom(lines, i + Stride, filePath)

chunkFile(content, filePath) == ChunksFrom(Split(content), 0, filePath)

\* `${relativePath}:${chunk.startLine}-${chunk.endLine}`
ChunkId(relativePath, chunk) == <<relativePath, chunk.startLine, chunk.endLine>>

(***************************************************************************)
(* The workspace.  Tree lists the files in the order of the directory walk *)
(* of findAllCodeFiles (readdirSync, depth first).                         *)
(***************************************************************************)
Tree ==
    << [dirs |-> <<>>, ext |-> ".ts", rel |-> "a.ts"],
       [dirs |-> <<"node_modules">>, ext |-> ".js", rel |-> "node_modules/x.js"],
       [dirs |-> <<>>, ext |-> ".txt", rel |-> "notes.txt"],
       [dirs |-> <<"src">>, ext |-> ".ts", rel |-> "src/b.ts"],
       [dirs |-> <<"src", "build">>, ext |-> ".ts", rel |-> "src/build/c.ts"] >>

Range(seq) == {seq[j] : j \in DOMAIN seq}

PrunedDirs == {"node_modules", ".git", "dist", "build", "out"}

CodeExtensions ==
    {".js", ".ts", ".jsx", ".tsx", ".java", ".py", ".c", ".cpp", ".h", ".cs", ".go",
     ".rb", ".php", ".html", ".css", ".scss", ".less", ".json", ".yml", ".yaml",
     ".md", ".xml"}

isCodeFile(entry) == entry.ext \in CodeExtensions

RECURSIVE RelsOf(_)
RelsOf(entries) ==
    IF entries = <<>> THEN <<>> ELSE <<Head(entries).rel>> \o RelsOf(Tail(entries))

\* only the directories of the root are compared with the list
InPrunedTopDirectory(entry) == entry.dirs # <<>> /\ entry.dirs[1] \in PrunedDirs

\* findFiles does not call itself on a directory whose name is in the list,
\* at whatever depth: the files below it are not seen
InPrunedDirectory(entry) == Range(entry.dirs) \cap PrunedDirs # {}

findAllCodeFiles(tree) ==
    LET Kept(entry) == ~InPrunedDirectory(entry) /\ isCodeFile(entry)
    IN  RelsOf(SelectSeq(tree, Kept))

Aa == <<65, 97>>

BB == <<66, 66>>

LongLines == 50

Long == [j \in 1..LongLines |-> NewLine] \o Aa

File(text) == [readable |-> TRUE, text |-> text]

Unreadable == [readable |-> FALSE, text |-> <<>>]

EditedFiles == {"a.ts"}

Contents == {File(Aa), File(BB), File(Long)}

ConfigFiles ==
    <<"tsconfig.json", ".gitignore", "webpack.config.js", "babel.config.js",
      "jest.config.js", "pom.xml", "build.gradle">>

ProjectFileNames == {"package.json"} \cup Range(ConfigFiles)

ChangedProjectFiles == {"package.json"}

ProjectFileValues == {"absent", "{", "{}"}

\* JSON.parse: "{}" parses, anything else here throws
ParseJson(text) == [parsed |-> text = "{}", value |-> <<"object", text>>]

(***************************************************************************)
(* WorkspaceManager.collectProjectMetadata: keys are set, never removed.   *)
(***************************************************************************)
collectProjectMetadata(meta, files) ==
    LET pkg == files["package.json"]
        withPkg == IF pkg \notin {"absent", "unreadable"} /\ ParseJson(pkg).parsed
                   THEN [k \in DOMAIN meta \cup {"packageJson"} |->
                            IF k = "packageJson" THEN ParseJson(pkg).value ELSE meta[k]]
                   ELSE meta
        found == {c \in Range(ConfigFiles) : files[c] \notin {"absent", "unreadable"}}
    IN  [k \in DOMAIN withPkg \cup found |->
            IF k \in found THEN <<"text", files[k]>> ELSE withPkg[k]]

(***************************************************************************)
(* Bounds of the index model.                                              *)
(***************************************************************************)
MaxCalls == 2        \* indexWorkspace and getRelevantCode calls per behaviour
MaxQueries == 2      \* getRelevantCode invocations suspended at the same time
MaxEdits == 1        \* changes made to the workspace per behaviour

(***************************************************************************)
(* What a step of the indexer reports in out.  rel is the file a pass is   *)
(* at, QueryCaller for a retrieval query.                                  *)
(***************************************************************************)
QueryCaller == "getRelevantCode"

NoVector == [dim |-> 0, zero |-> TRUE, of |-> <<>>]

IndexEvent(op, rel, text, vector) == [op |-> op, rel |-> rel, text |-> text, vector |-> vector]

(***************************************************************************)
(* EmbeddingService.generateEmbedding, in its three pieces: the cache      *)
(* lookup and the request (lines 37-49), the provider's answer (51-56)     *)
(* and the catch (57-62).                                                  *)
(***************************************************************************)
Cached(text, cache) == getCacheKey(text) \in DOMAIN cache

RequestEvent(rel, text) ==
    IndexEvent("embeddings.create", rel, truncateText(text, MaxTokens, encoder), NoVector)

CacheSetSkipped(cache, text, embedding) == cache

\* this.embeddingCache.set(cacheKey, embedding)
CacheSet(cache, text, embedding) ==
    [k \in DOMAIN cache \cup {getCacheKey(text)} |->
        IF k = getCacheKey(text) THEN embedding ELSE cache[k]]

\* the fallback is cached like an embedding of the provider
FallbackCached(cache, text, embedding) ==
    [k \in DOMAIN cache \cup {getCacheKey(text)} |->
        IF k = getCacheKey(text) THEN embedding ELSE cache[k]]

\* the catch of generateEmbedding returns the fallback without a call of
\* embeddingCache.set: the cache is what it was
CacheAfterFailure(cache, text, embedding) == cache

CatchRethrows(error) == [threw |-> TRUE, value |-> NoVector]

\* the catch of generateEmbedding: log, return new Array(1536).fill(0)
CatchEmbeddingError(error) == [threw |-> FALSE, value |-> ZeroVector]

\* what generateEmbedding hands to its caller once the provider has answered
Answer(text, ok) ==
    IF ok
    THEN [threw |-> FALSE, value |-> ProviderEmbedding(truncateText(text, MaxTokens, encoder))]
    ELSE CatchEmbeddingError("provider")

AnswerEvents(rel, text, ok) ==
    IF ok
    THEN <<IndexEvent("embedding", rel, text, Answer(text, ok).value)>>
    ELSE <<IndexEvent("providerError", rel, text, NoVector),
           IF Answer(text, ok).threw
           THEN IndexEvent("throw", rel, text, NoVector)
           ELSE IndexEvent("fallback", rel, text, Answer(text, ok).value)>>

(***************************************************************************)
(* WorkspaceManager.indexWorkspace / processFile.  A pass runs from one    *)
(* provider request to the next without interleaving.  w is the state the  *)
(* pass works on: db, fc, ix are vectorDB, fileChunks and indexedFiles,    *)
(* ev the events so far, pass its frame (files: the list of the walk, at:  *)
(* the file it is at, chunks: the chunks of that file, chunk: the chunk    *)
(* it is at).                                                              *)
(***************************************************************************)
IdlePass == [pc |-> "idle", files |-> <<>>, at |-> 0, chunks |-> <<>>, chunk |-> 0]

NeverAlreadyIndexed(relativePath, content, indexed) == FALSE

isFileAlreadyIndexed(relativePath, content, indexed) == relativePath \in indexed

\* the chunk the pass is at is passed over: nothing is added for it
NotStored(w, vector) == [w EXCEPT !.pass.chunk = @ + 1]

\* this.vectorDB.add({id, vector, metadata}) for the chunk the pass is at
Stored(w, vector) ==
    LET rel == w.pass.files[w.pass.at]
        chunk == w.pass.chunks[w.pass.chunk]
        record == [id |-> ChunkId(rel, chunk),
                   vector |-> vector,
                   metadata |-> [filePath |-> rel,
                                 startLine |-> chunk.startLine,
                                 endLine |-> chunk.endLine,
                                 content |-> chunk.content]]
    IN  [w EXCEPT !.db = Append(@, record),
                  !.ev = Append(@, IndexEvent("vectorDB.add", rel, chunk.content, vector)),
                  !.pass.chunk = @ + 1]

RECURSIVE ProcessChunks(_, _)
RECURSIVE ProcessFiles(_, _)

\* the error leaves the loop over the files: no file is left to process
NoFileAfterFailedFile(at, files) == Len(files) + 1

\* the catch of processFile logs the error and returns: the loop over the
\* files goes on with the next file
AfterFailedFile(at, files) == at + 1

\* the loop over the chunks of the file the pass is at, from chunk w.pass.chunk
ProcessChunks(w, cache) ==
    LET rel == w.pass.files[w.pass.at]
    IN  IF w.pass.chunk > Len(w.pass.chunks)
        THEN ProcessFiles([w EXCEPT !.ix = @ \cup {rel},
                                    !.ev = Append(@, IndexEvent("indexedFiles.add", rel, <<>>, NoVector)),
                                    !.pass.at = @ + 1], cache)
        ELSE LET text == w.pass.chunks[w.pass.chunk].content
                 called == [w EXCEPT !.ev = Append(@, IndexEvent("generateEmbedding", rel, text, NoVector))]
             IN  IF Cached(text, cache)
                 THEN ProcessChunks(
                          Stored([called EXCEPT !.ev = Append(@,
                                     IndexEvent("cacheHit", rel, text, cache[getCacheKey(text)]))],
                                 cache[getCacheKey(text)]),
                          cache)
                 ELSE [called EXCEPT !.pass.pc = "embedding",
                                     !.ev = Append(@, RequestEvent(rel, text))]

\* the loop over the files of the walk, from file w.pass.at
ProcessFiles(w, cache) ==
    IF w.pass.at > Len(w.pass.files)
    THEN [w EXCEPT !.pass = IdlePass,
                   !.ev = Append(@, IndexEvent("indexed", "", <<>>, NoVector))]
    ELSE LET rel == w.pass.files[w.pass.at]
         IN  IF ~disk[rel].readable
             THEN ProcessFiles([w EXCEPT !.pass.at = AfterFailedFile(@, w.pass.files),
                                         !.ev = Append(@, IndexEvent("readError", rel, <<>>, NoVector))],
                               cache)
             ELSE IF isFileAlreadyIndexed(rel, disk[rel].text, w.ix)
             THEN ProcessFiles([w EXCEPT !.pass.at = @ + 1,
                                         !.ev = Append(@, IndexEvent("skip", rel, <<>>, NoVector))],
                               cache)
             ELSE ProcessChunks(
                      [w EXCEPT !.fc = [k \in DOMAIN @ \cup {rel} |->
                                           IF k = rel THEN chunkFile(disk[rel].text, rel) ELSE @[k]],
                                !.pass.chunks = chunkFile(disk[rel].text, rel),
                                !.pass.chunk = 1,
                                !.ev = Append(@, IndexEvent("chunkFile", rel, disk[rel].text, NoVector))],
                      cache)

\* the catch of processFile: the file is given up, the pass goes on
GiveUpFile(w, cache) ==
    ProcessFiles([w EXCEPT !.pass.at = AfterFailedFile(@, w.pass.files),
                           !.ev = Append(@, IndexEvent("processFileError", w.pass.files[w.pass.at],
                                                       <<>>, NoVector))],
                 cache)

World(events) == [db |-> vectorDB, fc |-> fileChunks, ix |-> indexedFiles, ev |-> events, pass |-> pass]

Commit(w, answered) ==
    /\ vectorDB' = w.db
    /\ fileChunks' = w.fc
    /\ indexedFiles' = w.ix
    /\ pass' = w.pass
    /\ out' = w.ev
    /\ providerCalls' = [sent |-> providerCalls.sent \cup
                                      IF w.pass.pc = "embedding"
                                      THEN {w.pass.chunks[w.pass.chunk].content} ELSE {},
                          ok |-> providerCalls.ok \cup answered]

(***************************************************************************)
(* The operations of the indexer.  extension.ts awaits indexWorkspace, so  *)
(* passes follow one another; queries come from the chat view at any time. *)
(***************************************************************************)
\* the project files are read before the workspace folders are looked at
MetadataCollectedFirst(meta, files) == collectProjectMetadata(meta, files)

\* indexWorkspace throws 'No workspace folder open' at line 32, before
\* collectProjectMetadata at line 38: the metadata are what they were
MetadataWithoutWorkspace(meta, files) == meta

IndexWorkspace ==
    /\ pass.pc = "idle"
    /\ calls < MaxCalls
    /\ calls' = calls + 1
    /\ IF ~workspaceOpen
       THEN /\ out' = <<IndexEvent("throw", "", <<>>, NoVector),
                        IndexEvent("showErrorMessage", "", <<>>, NoVector)>>
            /\ projectMetadata' = MetadataWithoutWorkspace(projectMetadata, projectFiles)
            /\ UNCHANGED <<vectorDB, fileChunks, indexedFiles, pass, providerCalls>>
       ELSE /\ projectMetadata' = collectProjectMetadata(projectMetadata, projectFiles)
            /\ Commit(ProcessFiles(
                   [World(<<IndexEvent("indexWorkspace", "", <<>>, NoVector)>>)
                       EXCEPT !.pass = [pc |-> "running", files |-> findAllCodeFiles(Tree),
                                        at |-> 1, chunks |-> <<>>, chunk |-> 0]],
                   embeddingCache), {})
    /\ UNCHANGED <<embeddingCache, overlap, queries, diskVars, encoder>>

\* the provider answers the request of the pass
PassEmbeddingReturns(ok) ==
    /\ pass.pc = "embedding"
    /\ LET rel == pass.files[pass.at]
           text == pass.chunks[pass.chunk].content
           answer == Answer(text, ok)
           cache == IF ok THEN CacheSet(embeddingCache, text, answer.value)
                    ELSE CacheAfterFailure(embeddingCache, text, ZeroVector)
           w == [World(AnswerEvents(rel, text, ok)) EXCEPT !.pass.pc = "running"]
       IN  /\ embeddingCache' = cache
           /\ Commit(IF answer.threw THEN GiveUpFile(w, cache)
                     ELSE ProcessChunks(Stored(w, answer.value), cache),
                     IF ok THEN {text} ELSE {})
    /\ UNCHANGED <<projectMetadata, overlap, queries, calls, diskVars, encoder>>

QuerySlots == 1..MaxQueries

QueryTexts == {Aa, BB}

MaxChunks == 5

IdleQuery == [pc |-> "idle", query |-> <<>>]

\* SimpleVectorDB.search: the records nearest to the vector first, at most k
\* of them; records equally near keep the order of their insertion
Near(record, vector) == ~vector.zero /\ ~record.vector.zero /\ record.vector.of = vector.of

Ranked(db, vector) ==
    SelectSeq(db, LAMBDA record : Near(record, vector))
        \o SelectSeq(db, LAMBDA record : ~Near(record, vector))

LimitIgnored(k, size) == size

Limit(k, size) == Min(k, size)

SearchResults(db, vector, k) == SubSeq(Ranked(db, vector), 1, Limit(k, Len(db)))

\* vectorDB.search(queryEmbedding, maxChunks), then return
Search(vector) ==
    <<[op |-> "vectorDB.search", rel |-> QueryCaller, text |-> <<>>, vector |-> vector,
       results |-> SearchResults(vectorDB, vector, MaxChunks)]>>

\* the query starts from an empty index
IndexResetByQuery(db) == <<>>

\* getRelevantCode calls generateEmbedding and vectorDB.search, and neither
\* indexWorkspace nor vectorDB.add: the index is what it was
IndexAfterQuery(db) == db

GetRelevantCode(i, query) ==
    /\ queries[i].pc = "idle"
    /\ \A j \in QuerySlots : j < i => queries[j].pc # "idle"
    /\ calls < MaxCalls
    /\ calls' = calls + 1
    /\ LET called == <<IndexEvent("generateEmbedding", QueryCaller, query, NoVector)>>
       IN  IF Cached(query, embeddingCache)
           THEN /\ out' = called
                          \o <<IndexEvent("cacheHit", QueryCaller, query,
                                          embeddingCache[getCacheKey(query)])>>
                          \o Search(embeddingCache[getCacheKey(query)])
                /\ UNCHANGED <<queries, providerCalls>>
           ELSE /\ out' = called \o <<RequestEvent(QueryCaller, query)>>
                /\ queries' = [queries EXCEPT ![i] = [pc |-> "embedding", query |-> query]]
                /\ providerCalls' = [providerCalls EXCEPT !.sent = @ \cup {query}]
    /\ vectorDB' = IndexAfterQuery(vectorDB)
    /\ UNCHANGED <<embeddingCache, projectMetadata, fileChunks, indexedFiles,
                   pass, overlap, diskVars, encoder>>

\* the provider answers the request of a query
QueryEmbeddingReturns(i, ok) ==
    /\ queries[i].pc = "embedding"
    /\ LET text == queries[i].query
           answer == Answer(text, ok)
       IN  /\ embeddingCache' = IF ok THEN CacheSet(embeddingCache, text, answer.value)
                                ELSE CacheAfterFailure(embeddingCache, text, ZeroVector)
           /\ out' = AnswerEvents(QueryCaller, text, ok)
                     \o IF answer.threw THEN <<>> ELSE Search(answer.value)
           /\ providerCalls' = [providerCalls EXCEPT !.ok = @ \cup IF ok THEN {text} ELSE {}]
    /\ queries' = [queries EXCEPT ![i] = IdleQuery]
    /\ vectorDB' = IndexAfterQuery(vectorDB)
    /\ UNCHANGED <<projectMetadata, fileChunks, indexedFiles, pass, overlap, calls,
                   diskVars, encoder>>

\* somebody changes a file of the workspace
EditFile(rel, content) ==
    /\ edits < MaxEdits
    /\ disk[rel] # content
    /\ edits' = edits + 1
    /\ disk' = [disk EXCEPT ![rel] = content]
    /\ out' = <<>>
    /\ UNCHANGED <<projectFiles, indexVars>>

ChangeProjectFile(name, value) ==
    /\ edits < MaxEdits
    /\ projectFiles[name] # value
    /\ edits' = edits + 1
    /\ projectFiles' = [projectFiles EXCEPT ![name] = value]
    /\ out' = <<>>
    /\ UNCHANGED <<disk, indexVars>>

IndexDefaults ==
    /\ embeddingCache = <<>>
    /\ providerCalls = [sent |-> {}, ok |-> {}]
    /\ vectorDB = <<>>
    /\ fileChunks = <<>>
    /\ indexedFiles = {}
    /\ projectMetadata = <<>>
    /\ pass = IdlePass
    /\ overlap = IdlePass
    /\ queries = [i \in QuerySlots |-> IdleQuery]
    /\ calls = 0

ChunkDefaults ==
    /\ chunkInput = <<>>
    /\ chunked = <<>>

ParseDefaults ==
    /\ parseInput = <<>>
    /\ parsed = <<>>

ChatDefaults ==
    /\ messages = <<>>
    /\ claudeMessages = <<>>
    /\ turns = <<>>
    /\ chatOut = <<>>

InitialDisk(a, b) ==
    [rel \in Range(RelsOf(Tree)) |->
        IF rel = "a.ts" THEN a ELSE IF rel = "src/b.ts" THEN b ELSE File(Aa)]

InitialDisks == {InitialDisk(a, b) : a \in {File(Aa), File(Long)}, b \in {File(BB), Unreadable}}

InitialProjectFiles ==
    [name \in ProjectFileNames |->
        IF name = "package.json" THEN "{}"
        ELSE IF name = "tsconfig.json" THEN "{}"
        ELSE IF name = ".gitignore" THEN "unreadable"
        ELSE "absent"]

(***************************************************************************)
(* The executor: a plan is pending (a query stored it), nothing runs.      *)
(***************************************************************************)
\* the ids a message can name: the id a step carries, the id it was given,
\* and an id no step carries
StepIdInputs ==
    {pendingSteps[k].id : k \in DOMAIN pendingSteps}
        \cup {StepId(k) : k \in DOMAIN pendingSteps} \cup {UnknownId}

InitExec ==
    /\ pendingSteps \in Plans
    /\ inv = [i \in Slots |-> IdleFrame]
    /\ started = 0
    /\ out = <<>>
    /\ workspaceOpen \in BOOLEAN
    /\ disk = InitialDisk(File(Aa), File(BB))
    /\ projectFiles = InitialProjectFiles
    /\ edits = 0
    /\ encoder = TRUE
    /\ IndexDefaults
    /\ ChunkDefaults
    /\ ParseDefaults
    /\ ChatDefaults

\* the executor leaves the indexer alone
IndexIdle == UNCHANGED <<diskVars, indexVars, chunkVars, parseVars, chatVars>>

NextExec ==
    \/ \E i \in Slots, stepId \in StepIdInputs : ExecuteStep(i, stepId) /\ IndexIdle
    \/ \E i \in Slots, result \in PreviewResults : PreviewAnswer(i, result) /\ IndexIdle
    \/ \E i \in Slots, outcome \in DirectoryOutcomes, writeOk \in BOOLEAN :
          EnsureDirectoryExists(i, outcome, writeOk) /\ IndexIdle
    \/ \E i \in Slots, ok \in BOOLEAN : OpenWritten(i, ok) /\ IndexIdle

SpecExec == InitExec /\ [][NextExec]_vars

(***************************************************************************)
(* The indexer: the extension is activated on a workspace, passes and      *)
(* queries run, the provider answers or fails, the workspace is edited.    *)
(***************************************************************************)
InitIndex ==
    /\ pendingSteps = <<>>
    /\ inv = [i \in Slots |-> IdleFrame]
    /\ started = 0
    /\ out = <<>>
    /\ workspaceOpen \in BOOLEAN
    /\ disk \in InitialDisks
    /\ projectFiles = InitialProjectFiles
    /\ edits = 0
    /\ IndexDefaults
    /\ ChunkDefaults
    /\ ParseDefaults
    /\ ChatDefaults
    /\ encoder \in BOOLEAN

\* the indexer leaves the executor alone
ExecIdle == UNCHANGED <<execVars, workspaceOpen, chunkVars, parseVars, chatVars>>

NextIndex ==
    \/ IndexWorkspace /\ ExecIdle
    \/ \E ok \in BOOLEAN : PassEmbeddingReturns(ok) /\ ExecIdle
    \/ \E i \in QuerySlots, query \in QueryTexts : GetRelevantCode(i, query) /\ ExecIdle
    \/ \E i \in QuerySlots, ok \in BOOLEAN : QueryEmbeddingReturns(i, ok) /\ ExecIdle
    \/ \E rel \in EditedFiles, content \in Contents : EditFile(rel, content) /\ ExecIdle
    \/ \E name \in ChangedProjectFiles, value \in ProjectFileValues :
          ChangeProjectFile(name, value) /\ ExecIdle

SpecIndex == InitIndex /\ [][NextIndex]_vars

(***************************************************************************)
(* chunkFile on its own: a text of some number of lines is chunked, and    *)
(* chunked again.                                                          *)
(***************************************************************************)
MaxLines == 130      \* lines of a chunked text
MaxChunkCalls == 2   \* calls of chunkFile on one text

\* a text of n lines: blank lines, or lines of one letter each
BlankLines(n) == [j \in 1..(n - 1) |-> NewLine]

LetterLines(n) == [j \in 1..(2 * n - 1) |-> IF j % 2 = 0 THEN NewLine ELSE 65 + ((j \div 2) % 26)]

ChunkInputs == {BlankLines(n) : n \in 1..MaxLines} \cup {LetterLines(n) : n \in 1..MaxLines}

ChunkedPath == "a.ts"

ChunkFile ==
    /\ Len(chunked) < MaxChunkCalls
    /\ chunked' = Append(chunked, chunkFile(chunkInput, ChunkedPath))
    /\ UNCHANGED <<chunkInput, out, diskVars, indexVars, execVars, workspaceOpen, parseVars,
                   chatVars>>

InitChunk ==
    /\ pendingSteps = <<>>
    /\ inv = [i \in Slots |-> IdleFrame]
    /\ started = 0
    /\ out = <<>>
    /\ workspaceOpen = TRUE
    /\ disk = InitialDisk(File(Aa), File(BB))
    /\ projectFiles = InitialProjectFiles
    /\ edits = 0
    /\ encoder = TRUE
    /\ IndexDefaults
    /\ chunkInput \in ChunkInputs
    /\ chunked = <<>>
    /\ ParseDefaults
    /\ ChatDefaults

NextChunk == ChunkFile

SpecChunk == InitChunk /\ [][NextChunk]_vars

(***************************************************************************)
(* The model's response and ClaudeService.parseSteps.  A response is a     *)
(* sequence of tokens: prose, the <steps> and </steps> tags, and step      *)
(* blocks <step id="...">...</step>, whose body is the sequence of the     *)
(* elements the block holds.  A text is the sequence of its pieces, " "    *)
(* being white space.                                                      *)
(***************************************************************************)
Token(tag, attr, body) == [tag |-> tag, attr |-> attr, body |-> body]

Prose(text) == Token("text", "", text)

StepsOpen == Token("<steps>", "", <<>>)

StepsClose == Token("</steps>", "", <<>>)

\* the positions of the tokens of a sequence that carry a tag, in order
RECURSIVE Positions(_, _, _)
Positions(tokens, tag, from) ==
    IF from > Len(tokens) THEN <<>>
    ELSE (IF tokens[from].tag = tag THEN <<from>> ELSE <<>>)
             \o Positions(tokens, tag, from + 1)

\* String.prototype.trim
RECURSIVE Trim(_)
Trim(text) ==
    IF text = <<>> THEN <<>>
    ELSE IF Head(text) = " " THEN Trim(Tail(text))
    ELSE IF text[Len(text)] = " " THEN Trim(SubSeq(text, 1, Len(text) - 1))
    ELSE text

\* response.match(/<steps>([\s\S]*?)<\/steps>/): the first <steps> and the
\* first </steps> after it, <<0, 0>> for null
StepsMatch(response) ==
    LET opens == Positions(response, "<steps>", 1)
        closes == IF opens = <<>> THEN <<>>
                  ELSE Positions(response, "</steps>", opens[1] + 1)
    IN  IF closes = <<>> THEN <<0, 0>> ELSE <<opens[1], closes[1]>>

\* stepsContent.matchAll(/<step id="([^"]+)">([\s\S]*?)<\/step>/g): every
\* block with a non-empty id, in document order
RECURSIVE StepMatchesFrom(_, _)
StepMatchesFrom(stepsContent, from) ==
    IF from > Len(stepsContent) THEN <<>>
    ELSE (IF stepsContent[from].tag = "step" /\ stepsContent[from].attr # ""
          THEN <<stepsContent[from]>> ELSE <<>>)
             \o StepMatchesFrom(stepsContent, from + 1)

\* String.prototype.match without the g flag: the first block only
StepMatchesFirstOnly(stepsContent) ==
    LET all == StepMatchesFrom(stepsContent, 1)
    IN  IF all = <<>> THEN <<>> ELSE <<all[1]>>

StepMatches(stepsContent) == StepMatchesFrom(stepsContent, 1)

\* stepContent.match(/<tag>([\s\S]*?)<\/tag>/): the first element with the
\* tag, <<>> for null and <<text>> for a match
ElementMatch(stepContent, tag) ==
    LET at == Positions(stepContent, tag, 1)
    IN  IF at = <<>> THEN <<>> ELSE <<stepContent[at[1]].body>>

\* descriptionMatch ? descriptionMatch[1].trim() : ''
Description(stepContent) ==
    LET descriptionMatch == ElementMatch(stepContent, "description")
    IN  IF descriptionMatch = <<>> THEN <<>> ELSE Trim(descriptionMatch[1])

\* stepContent.includes('<action type="...">')
IncludesAction(stepContent, type) ==
    \E j \in DOMAIN stepContent :
        stepContent[j].tag = "action" /\ stepContent[j].attr = type

ParsedStep(id, description, actionType, command, filePath, fileContent) ==
    [id |-> <<id>>, description |-> description, actionType |-> actionType,
     command |-> command, filePath |-> filePath, fileContent |-> fileContent]

\* the terminal branch: the command is required, a block without one is a
\* parse error and yields no step
TerminalStep(id, stepContent) ==
    LET commandMatch == ElementMatch(stepContent, "command")
    IN  IF commandMatch = <<>> THEN <<>>
        ELSE <<ParsedStep(id, Description(stepContent), "terminal",
                          Trim(commandMatch[1]), <<>>, <<>>)>>

\* the file branch: the path and the content are required
FileStep(id, stepContent) ==
    LET pathMatch == ElementMatch(stepContent, "path")
        contentMatch == ElementMatch(stepContent, "content")
    IN  IF pathMatch = <<>> \/ contentMatch = <<>> THEN <<>>
        ELSE <<ParsedStep(id, Description(stepContent), "file",
                          <<>>, Trim(pathMatch[1]), contentMatch[1])>>

\* the folder branch: the path is required
FolderStep(id, stepContent) ==
    LET pathMatch == ElementMatch(stepContent, "path")
    IN  IF pathMatch = <<>> THEN <<>>
        ELSE <<ParsedStep(id, Description(stepContent), "folder",
                          <<>>, Trim(pathMatch[1]), <<>>)>>

\* the body of the loop over the matches: the steps one block yields
StepOf(match) ==
    IF IncludesAction(match.body, "terminal") THEN TerminalStep(match.attr, match.body)
    ELSE IF IncludesAction(match.body, "file") THEN FileStep(match.attr, match.body)
    ELSE IF IncludesAction(match.body, "folder") THEN FolderStep(match.attr, match.body)
    ELSE <<>>

RECURSIVE StepsOf(_)
StepsOf(stepMatches) ==
    IF stepMatches = <<>> THEN <<>>
    ELSE StepOf(Head(stepMatches)) \o StepsOf(Tail(stepMatches))

parseSteps(response) ==
    LET stepsMatch == StepsMatch(response)
    IN  IF stepsMatch = <<0, 0>> THEN <<>>
        ELSE StepsOf(StepMatches(SubSeq(response, stepsMatch[1] + 1, stepsMatch[2] - 1)))

\* the explanation shown to the user: the response without its steps section
removeXMLTags(response) ==
    LET stepsMatch == StepsMatch(response)
    IN  IF stepsMatch = <<0, 0>> THEN response
        ELSE SubSeq(response, 1, stepsMatch[1] - 1)
                 \o SubSeq(response, stepsMatch[2] + 1, Len(response))

(***************************************************************************)
(* The responses of the model: an explanation, then possibly a steps       *)
(* section of some blocks (closed or cut short), then possibly more prose. *)
(***************************************************************************)
MaxBlocks == 2       \* step blocks in a response

Explanation == Prose(<<"Here", " ", "is", " ", "the", " ", "plan">>)

Afterword == Prose(<<"Done">>)

Element(tag, text) == Token(tag, "", text)

Action(type) == Token("action", type, <<>>)

DescriptionElement == Element("description", <<" ", "list", " ", "files", " ">>)

\* the bodies of the step blocks a response can hold
BlockBodies ==
    { <<DescriptionElement, Action("terminal"), Element("command", <<" ", "ls", " ">>)>>,
      <<DescriptionElement, Action("terminal")>>,
      <<Action("terminal"), Element("command", <<"ls">>)>>,
      <<DescriptionElement, Action("file"), Element("path", <<"a.txt">>),
        Element("content", <<" ", "x">>)>>,
      <<DescriptionElement, Action("folder"), Element("path", <<"d">>)>> }

\* the k-th block carries the id "k", as the system prompt asks
Blocks ==
    UNION {{[k \in 1..len |-> Token("step", ToString(k), f[k])] :
               f \in [1..len -> BlockBodies]} : len \in 0..MaxBlocks}

Responses ==
    {<<Explanation>>}
        \cup {<<Explanation, StepsOpen>> \o blocks \o tail :
                 blocks \in Blocks,
                 tail \in {<<>>, <<StepsClose>>, <<StepsClose, Afterword>>}}

(***************************************************************************)
(* parseSteps on its own: a response is parsed, and parsed again.          *)
(***************************************************************************)
MaxParseCalls == 2   \* calls of parseSteps on one response

ParseSteps ==
    /\ Len(parsed) < MaxParseCalls
    /\ parsed' = Append(parsed, parseSteps(parseInput))
    /\ UNCHANGED <<parseInput, out, diskVars, indexVars, execVars, workspaceOpen, chunkVars,
                   chatVars>>

InitParse ==
    /\ pendingSteps = <<>>
    /\ inv = [i \in Slots |-> IdleFrame]
    /\ started = 0
    /\ out = <<>>
    /\ workspaceOpen = TRUE
    /\ disk = InitialDisk(File(Aa), File(BB))
    /\ projectFiles = InitialProjectFiles
    /\ edits = 0
    /\ encoder = TRUE
    /\ IndexDefaults
    /\ ChunkDefaults
    /\ parseInput \in Responses
    /\ parsed = <<>>
    /\ ChatDefaults

NextParse == ParseSteps

SpecParse == InitParse /\ [][NextParse]_vars

(***************************************************************************)
(* The chat session: ChatViewProvider.handleUserQuery and                  *)
(* ClaudeService.query.  A turn is suspended at the embedding request of   *)
(* getRelevantCode (unless the cache answers) and at the model call; what  *)
(* lies between runs in one step.  The entries of the chat view carry the  *)
(* turn that wrote them and what they are, which the webview does not see. *)
(***************************************************************************)
MaxPast == 5         \* exchanges of the conversation before the behaviour starts

HistoryLimit == 10

Turns == 1..MaxCalls

IdleTurn == [pc |-> "idle", slot |-> 0, query |-> <<>>]

ChatEvent(op, turn, arg) == [op |-> op, turn |-> turn, arg |-> arg]

ChatMessage(role, content, turn, kind) ==
    [role |-> role, content |-> content, turn |-> turn, kind |-> kind]

Intro == ChatMessage("assistant", "Hello! I'm your AI coding assistant. How can I help you today?",
                     0, "intro")

Thinking(turn) == ChatMessage("assistant", "Thinking...", turn, "placeholder")

\* `I encountered an error: ${error}`
ErrorMessage(turn, error) ==
    ChatMessage("assistant", <<"I encountered an error: ", error>>, turn, "error")

\* new Error(`Failed to get a response from Claude: ${error}`)
QueryError(error) == <<"Error: Failed to get a response from Claude: ", error>>

\* the prompt of a turn: the query, the project context and the relevant code
FullPrompt(userQuery, relevantCode, metadata) ==
    [userQuery |-> userQuery, metadataContext |-> metadata, codeContext |-> relevantCode]

Entry(role, content) == [role |-> role, content |-> content]

\* if (this.messages.length > 10) this.messages = this.messages.slice(length - 10)
Keep(history) ==
    IF Len(history) > HistoryLimit
    THEN SubSeq(history, Len(history) - HistoryLimit + 1, Len(history))
    ELSE history

\* this.messages[this.messages.length - 1] = message: on an empty array the
\* assignment sets the property "-1" and the array keeps no element
ReplaceLast(shown, message) ==
    IF shown = <<>> THEN shown ELSE [shown EXCEPT ![Len(shown)] = message]

StoreStepsKeepsOld(steps, pending) == pending \o steps

\* this.pendingSteps = response.steps
StoreSteps(steps, pending) == steps

\* the responses the model gives in a session: an explanation alone, an
\* explanation with a plan, and a plan cut short before </steps>
Plain == <<Explanation>>

Planned ==
    <<Explanation, StepsOpen,
      Token("step", "1", <<DescriptionElement, Action("terminal"), Element("command", <<"ls">>)>>),
      StepsClose, Afterword>>

CutShort ==
    <<Explanation, StepsOpen,
      Token("step", "1", <<DescriptionElement, Action("terminal"), Element("command", <<"ls">>)>>)>>

ChatResponses == {Plain, Planned, CutShort}

\* the questions of the user
ChatQueries == {Aa}

\* the conversation ClaudeService retains after k answered queries, and the
\* chat view after them
RECURSIVE History(_)
History(k) ==
    IF k = 0 THEN <<>>
    ELSE Append(Keep(Append(History(k - 1), Entry("user", FullPrompt(Aa, <<>>, <<>>)))),
                Entry("assistant", Plain))

RECURSIVE Shown(_)
Shown(k) ==
    IF k = 0 THEN <<Intro>>
    ELSE Shown(k - 1) \o <<ChatMessage("user", Aa, 0, "user"),
                           ChatMessage("assistant", removeXMLTags(Plain), 0, "answer")>>

\* ClaudeService.query up to the model call: the prompt is pushed, the
\* conversation is cut to its last entries and sent
Ask(turn, userQuery, vector, events) ==
    LET relevantCode == SearchResults(vectorDB, vector, MaxChunks)
        kept == Keep(Append(claudeMessages,
                            Entry("user", FullPrompt(userQuery, relevantCode, projectMetadata))))
    IN  /\ claudeMessages' = kept
        /\ chatOut' = events \o <<ChatEvent("messages.create", turn, kept)>>
        /\ turns' = [turns EXCEPT ![turn] = [pc |-> "asking", slot |-> 0, query |-> userQuery]]

\* the sendQuery message: the query and the placeholder are shown, the
\* relevant code is asked for
HandleUserQuery(i, query) ==
    /\ GetRelevantCode(i, query)
    /\ LET turn == calls + 1
           events == <<ChatEvent("updateChat", turn, Len(messages) + 2)>>
       IN  /\ turns[turn].pc = "idle"
           /\ messages' = messages \o <<ChatMessage("user", query, turn, "user"), Thinking(turn)>>
           /\ IF Cached(query, embeddingCache)
              THEN Ask(turn, query, embeddingCache[getCacheKey(query)], events)
              ELSE /\ turns' = [turns EXCEPT ![turn] =
                                   [pc |-> "retrieving", slot |-> i, query |-> query]]
                   /\ chatOut' = events
                   /\ UNCHANGED claudeMessages
    /\ UNCHANGED <<pendingSteps, inv>>

\* the embedding of the query arrives (or the fallback): the model is asked
RelevantCodeReturns(turn, ok) ==
    /\ turns[turn].pc = "retrieving"
    /\ QueryEmbeddingReturns(turns[turn].slot, ok)
    /\ Ask(turn, turns[turn].query, Answer(turns[turn].query, ok).value, <<>>)
    /\ UNCHANGED <<messages, pendingSteps, inv>>

\* the model answers: the reply joins the conversation, the last entry of
\* the chat view is replaced by the explanation, the steps are stored
ModelReturns(turn, assistantMessage) ==
    /\ turns[turn].pc = "asking"
    /\ LET steps == parseSteps(assistantMessage)
           content == removeXMLTags(assistantMessage)
       IN  /\ claudeMessages' = Append(claudeMessages, Entry("assistant", assistantMessage))
           /\ messages' = ReplaceLast(messages, ChatMessage("assistant", content, turn, "answer"))
           /\ pendingSteps' = StoreSteps(steps, pendingSteps)
           /\ inv' = [i \in Slots |-> Detach(inv[i], pendingSteps)]
           /\ chatOut' = <<ChatEvent("query.return", turn,
                                     [response |-> assistantMessage, content |-> content,
                                      steps |-> steps, pending |-> pendingSteps]),
                           ChatEvent("updateChat", turn, Len(messages))>>
    /\ turns' = [turns EXCEPT ![turn] = [@ EXCEPT !.pc = "done"]]
    /\ out' = <<>>
    /\ UNCHANGED <<indexVars, diskVars>>

\* the model call fails: query rethrows, the catch of handleUserQuery
\* replaces the last entry of the chat view by the error
ModelFails(turn) ==
    /\ turns[turn].pc = "asking"
    /\ messages' = ReplaceLast(messages, ErrorMessage(turn, QueryError("provider")))
    /\ chatOut' = <<ChatEvent("query.throw", turn,
                              [response |-> <<>>, content |-> <<>>, steps |-> <<>>,
                               pending |-> pendingSteps]),
                    ChatEvent("updateChat", turn, Len(messages))>>
    /\ turns' = [turns EXCEPT ![turn] = [@ EXCEPT !.pc = "done"]]
    /\ out' = <<>>
    /\ UNCHANGED <<claudeMessages, pendingSteps, inv, indexVars, diskVars>>

\* the clearChat message
ClearChat ==
    /\ messages # <<>> \/ pendingSteps # <<>>
    /\ messages' = <<>>
    /\ pendingSteps' = <<>>
    /\ inv' = [i \in Slots |-> Detach(inv[i], pendingSteps)]
    /\ chatOut' = <<ChatEvent("updateChat", 0, 0)>>
    /\ out' = <<>>
    /\ UNCHANGED <<claudeMessages, turns, indexVars, diskVars>>

InitChat ==
    /\ pendingSteps = <<>>
    /\ inv = [i \in Slots |-> IdleFrame]
    /\ started = 0
    /\ out = <<>>
    /\ workspaceOpen = TRUE
    /\ disk = InitialDisk(File(Aa), File(BB))
    /\ projectFiles = InitialProjectFiles
    /\ edits = 0
    /\ encoder = TRUE
    /\ IndexDefaults
    /\ ChunkDefaults
    /\ ParseDefaults
    /\ \E past \in 0..MaxPast :
          /\ claudeMessages = History(past)
          /\ messages = Shown(past)
    /\ turns = [turn \in Turns |-> IdleTurn]
    /\ chatOut = <<>>

\* the session leaves the executor and the other calls alone
ChatIdle == UNCHANGED <<started, workspaceOpen, chunkVars, parseVars>>

NextChat ==
    \/ \E i \in QuerySlots, query \in ChatQueries : HandleUserQuery(i, query) /\ ChatIdle
    \/ \E turn \in Turns, ok \in BOOLEAN : RelevantCodeReturns(turn, ok) /\ ChatIdle
    \/ \E turn \in Turns, assistantMessage \in ChatResponses :
          ModelReturns(turn, assistantMessage) /\ ChatIdle
    \/ \E turn \in Turns : ModelFails(turn) /\ ChatIdle
    \/ ClearChat /\ ChatIdle

SpecChat == InitChat /\ [][NextChat]_vars

(***************************************************************************)
(* The plan of a session: queries store plans, the user executes their     *)
(* steps and clears the chat, in any order and while others are pending.   *)
(***************************************************************************)
\* a plan of a terminal step and a file step
PlannedFile ==
    <<Explanation, StepsOpen,
      Token("step", "1", <<DescriptionElement, Action("terminal"), Element("command", <<"ls">>)>>),
      Token("step", "2", <<DescriptionElement, Action("file"), Element("path", <<"a.txt">>),
                           Element("content", <<"x">>)>>),
      StepsClose>>

PlanResponses == {Plain, PlannedFile}

\* the answers of the user to a preview; the provider and the file system
\* do not fail in these sessions
PlanPreviewResults == {"Yes", "No"}

\* the executeStep messages of these sessions: one fewer than MaxExec
MaxPlanExec == MaxExec - 1

InitPlan ==
    /\ pendingSteps = <<>>
    /\ inv = [i \in Slots |-> IdleFrame]
    /\ started = 0
    /\ out = <<>>
    /\ workspaceOpen = TRUE
    /\ disk = InitialDisk(File(Aa), File(BB))
    /\ projectFiles = InitialProjectFiles
    /\ edits = 0
    /\ encoder = TRUE
    /\ IndexDefaults
    /\ ChunkDefaults
    /\ ParseDefaults
    /\ claudeMessages = History(0)
    /\ messages = Shown(0)
    /\ turns = [turn \in Turns |-> IdleTurn]
    /\ chatOut = <<>>

NextPlan ==
    \/ \E i \in QuerySlots, query \in ChatQueries : HandleUserQuery(i, query) /\ ChatIdle
    \/ \E turn \in Turns : RelevantCodeReturns(turn, TRUE) /\ ChatIdle
    \/ \E turn \in Turns, assistantMessage \in PlanResponses :
          ModelReturns(turn, assistantMessage) /\ ChatIdle
    \/ \E turn \in Turns : ModelFails(turn) /\ ChatIdle
    \/ ClearChat /\ ChatIdle
    \/ \E i \in Slots, stepId \in StepIdInputs :
          started < MaxPlanExec /\ ExecuteStep(i, stepId) /\ IndexIdle
    \/ \E i \in Slots, result \in PlanPreviewResults : PreviewAnswer(i, result) /\ IndexIdle
    \/ \E i \in Slots : EnsureDirectoryExists(i, "exists", TRUE) /\ IndexIdle
    \/ \E i \in Slots : OpenWritten(i, TRUE) /\ IndexIdle

SpecPlan == InitPlan /\ [][NextPlan]_vars

(***************************************************************************)
(* Overlapping passes.  indexWorkspace is a public method and keeps no     *)
(* record of a pass in flight: a caller that does not await the first      *)
(* call starts a second pass, which works on the same vectorDB, fileChunks *)
(* and indexedFiles with a frame of its own.                               *)
(***************************************************************************)
OverlapWorld(events) == [World(events) EXCEPT !.pass = overlap]

CommitOverlap(w, answered) ==
    /\ vectorDB' = w.db
    /\ fileChunks' = w.fc
    /\ indexedFiles' = w.ix
    /\ overlap' = w.pass
    /\ out' = w.ev
    /\ providerCalls' = [sent |-> providerCalls.sent \cup
                                      IF w.pass.pc = "embedding"
                                      THEN {w.pass.chunks[w.pass.chunk].content} ELSE {},
                          ok |-> providerCalls.ok \cup answered]
    /\ UNCHANGED pass

\* indexWorkspace() while an earlier invocation is suspended
IndexWorkspaceOverlapping ==
    /\ workspaceOpen
    /\ pass.pc # "idle"
    /\ overlap.pc = "idle"
    /\ calls < MaxCalls
    /\ calls' = calls + 1
    /\ projectMetadata' = collectProjectMetadata(projectMetadata, projectFiles)
    /\ CommitOverlap(ProcessFiles(
           [OverlapWorld(<<IndexEvent("indexWorkspace", "", <<>>, NoVector)>>)
               EXCEPT !.pass = [pc |-> "running", files |-> findAllCodeFiles(Tree),
                                at |-> 1, chunks |-> <<>>, chunk |-> 0]],
           embeddingCache), {})
    /\ UNCHANGED <<embeddingCache, queries, diskVars, encoder>>

\* the provider answers the request of the second pass
OverlapEmbeddingReturns(ok) ==
    /\ overlap.pc = "embedding"
    /\ LET rel == overlap.files[overlap.at]
           text == overlap.chunks[overlap.chunk].content
           answer == Answer(text, ok)
           cache == IF ok THEN CacheSet(embeddingCache, text, answer.value)
                    ELSE CacheAfterFailure(embeddingCache, text, ZeroVector)
           w == [OverlapWorld(AnswerEvents(rel, text, ok)) EXCEPT !.pass.pc = "running"]
       IN  /\ embeddingCache' = cache
           /\ CommitOverlap(IF answer.threw THEN GiveUpFile(w, cache)
                            ELSE ProcessChunks(Stored(w, answer.value), cache),
                            IF ok THEN {text} ELSE {})
    /\ UNCHANGED <<projectMetadata, queries, calls, diskVars, encoder>>

InitOverlap ==
    /\ pendingSteps = <<>>
    /\ inv = [i \in Slots |-> IdleFrame]
    /\ started = 0
    /\ out = <<>>
    /\ workspaceOpen = TRUE
    /\ disk \in InitialDisks
    /\ projectFiles = InitialProjectFiles
    /\ edits = 0
    /\ encoder = TRUE
    /\ IndexDefaults
    /\ ChunkDefaults
    /\ ParseDefaults
    /\ ChatDefaults

NextOverlap ==
    \/ IndexWorkspace /\ ExecIdle
    \/ \E ok \in BOOLEAN : PassEmbeddingReturns(ok) /\ ExecIdle
    \/ IndexWorkspaceOverlapping /\ ExecIdle
    \/ \E ok \in BOOLEAN : OverlapEmbeddingReturns(ok) /\ ExecIdle

SpecOverlap == InitOverlap /\ [][NextOverlap]_vars

(***************************************************************************)
(* The embedding cache under truncation: the queries are texts longer than *)
(* the token limit that differ after it only, the text of exactly the      *)
(* limit, and a short text.                                                *)
(***************************************************************************)
AtLimit == [j \in 1..MaxTokens |-> 97]

OverA == AtLimit \o <<65>>

OverB == AtLimit \o <<66>>

CacheTexts == {OverA, OverB, AtLimit, Aa}

InitCache ==
    /\ pendingSteps = <<>>
    /\ inv = [i \in Slots |-> IdleFrame]
    /\ started = 0
    /\ out = <<>>
    /\ workspaceOpen = TRUE
    /\ disk = InitialDisk(File(Aa), File(BB))
    /\ projectFiles = InitialProjectFiles
    /\ edits = 0
    /\ encoder = TRUE
    /\ IndexDefaults
    /\ ChunkDefaults
    /\ ParseDefaults
    /\ ChatDefaults

NextCache ==
    \/ \E i \in QuerySlots, query \in CacheTexts : GetRelevantCode(i, query) /\ ExecIdle
    \/ \E i \in QuerySlots, ok \in BOOLEAN : QueryEmbeddingReturns(i, ok) /\ ExecIdle

SpecCache == InitCache /\ [][NextCache]_vars

(***************************************************************************)
(* Retrieval during a pass: the workspace holds a file of more chunks than *)
(* a retrieval returns; queries arrive while the pass embeds them.         *)
(***************************************************************************)
HugeLines == 211     \* lines of the large file

\* a text of HugeLines lines, empty but for a letter on the line each window
\* starts at, so that no two windows hold the same text
Huge ==
    [j \in 1..(HugeLines - 1 + (HugeLines + Stride - 1) \div Stride) |->
        IF (j - 1) % (Stride + 1) = 0 THEN 65 + (j - 1) \div (Stride + 1) ELSE NewLine]

InitRetrieve ==
    /\ pendingSteps = <<>>
    /\ inv = [i \in Slots |-> IdleFrame]
    /\ started = 0
    /\ out = <<>>
    /\ workspaceOpen = TRUE
    /\ disk \in {InitialDisk(File(Huge), b) : b \in {File(BB), Unreadable}}
               \cup {InitialDisk(Unreadable, File(BB)), InitialDisk(File(BB), File(Huge))}
    /\ projectFiles = InitialProjectFiles
    /\ edits = 0
    /\ encoder = TRUE
    /\ IndexDefaults
    /\ ChunkDefaults
    /\ ParseDefaults
    /\ ChatDefaults

NextRetrieve ==
    \/ IndexWorkspace /\ ExecIdle
    \/ \E ok \in BOOLEAN : PassEmbeddingReturns(ok) /\ ExecIdle
    \/ \E i \in QuerySlots, query \in QueryTexts : GetRelevantCode(i, query) /\ ExecIdle
    \/ \E i \in QuerySlots, ok \in BOOLEAN : QueryEmbeddingReturns(i, ok) /\ ExecIdle

SpecRetrieve == InitRetrieve /\ [][NextRetrieve]_vars

(***************************************************************************)
(* Properties of the executor.                                             *)
(***************************************************************************)
\* the step has been marked completed at least once
IsCompleted(step) == Len(step.id) > 1

Ops(events) == {events[j].op : j \in DOMAIN events}

SideEffectOps == {"executeCommand", "createOrUpdateFile", "writeFileSync",
                  "createDirectory", "mkdir"}

MissingPayload(step) ==
    \/ step.actionType = "terminal" /\ step.command = ""
    \/ step.actionType = "file" /\ (step.filePath = "" \/ step.fileContent = "")
    \/ step.actionType = "folder" /\ step.filePath = ""

\* C1: when the preview of a file step answers reject (previewFileContent
\* returns false), nothing is written and the step keeps its id, so that a
\* later executeStep with the same id finds it again.
C1_RejectLeavesStepPending ==
    [][\A j \in DOMAIN out' :
          (out'[j].op = "previewResult" /\ out'[j].arg \in {"No", "dismissed"})
              => /\ "writeFileSync" \notin Ops(out')
                 /\ pendingSteps'[out'[j].step].id = pendingSteps[out'[j].step].id
                 /\ Find(pendingSteps', pendingSteps[out'[j].step].id) = out'[j].step]_vars

\* C2: an executeStep that targets a step already marked completed, by the
\* id the step was given or by the id it carries now, calls no collaborator,
\* does not mark the step again, and reports instead of re-running silently
\* (any report is accepted here as the "already completed" report).
C2_CompletedStepIsNotReRun ==
    [][\A j \in DOMAIN out' :
          (/\ out'[j].op = "executeStep"
           /\ \E k \in DOMAIN pendingSteps :
                 /\ IsCompleted(pendingSteps[k])
                 /\ \/ out'[j].step = k
                    \/ out'[j].step = 0 /\ out'[j].arg = StepId(k))
              => /\ Ops(out') \cap (SideEffectOps \cup {"previewFileContent", "completed"}) = {}
                 /\ pendingSteps' = pendingSteps
                 /\ "showErrorMessage" \in Ops(out')]_vars

\* C3: createOrUpdateFile is called, and the file written, only by an
\* invocation whose own preview answered accept ('Yes') before.
C3_WriteOnlyAfterAcceptedPreview ==
    [][\A j \in DOMAIN out' :
          out'[j].op \in {"createOrUpdateFile", "writeFileSync"}
              => LET i == out'[j].i
                 IN  /\ inv[i].kind = "file"
                     /\ inv[i].step = out'[j].step
                     /\ \/ inv[i].pc = "access" /\ inv[i].result = "Yes"
                        \/ /\ inv[i].pc = "preview"
                           /\ \E m \in 1..(j - 1) :
                                 /\ out'[m].op = "previewResult"
                                 /\ out'[m].arg = "Yes"
                                 /\ out'[m].i = i]_vars

\* a file has just been written
C3_Witness == \E j \in DOMAIN out : out[j].op = "writeFileSync"

\* C4: a failing action (a throw of the file write or of the directory
\* creation, a missing payload) is reported, does not mark its step completed
\* and leaves every step of the pending list as it was.
C4_FailureIsIsolated ==
    [][/\ "showErrorMessage" \in Ops(out') =>
              /\ pendingSteps' = pendingSteps
              /\ "completed" \notin Ops(out')
              /\ \A j \in DOMAIN out' : inv'[out'[j].i] = IdleFrame
       /\ pendingSteps' # pendingSteps => "showErrorMessage" \notin Ops(out')
       /\ \A i \in Slots :
              (inv'[i] = IdleFrame /\ (inv[i] # IdleFrame \/ \E j \in DOMAIN out' :
                                           out'[j].op = "executeStep" /\ out'[j].i = i))
                  => out'[Len(out')].op \in {"completed", "showErrorMessage"}
       /\ \A j \in DOMAIN out' :
              (out'[j].op = "executeStep" /\ out'[j].step > 0
                  /\ MissingPayload(pendingSteps[out'[j].step]))
                  => "showErrorMessage" \in Ops(out') /\ Ops(out') \cap SideEffectOps = {}]_vars

\* a write has just failed while another step of the plan is still pending
C4_Witness ==
    \E j \in DOMAIN out :
        /\ out[j].op = "showErrorMessage"
        /\ out[j].arg \in {"write failed", "mkdir failed"}
        /\ \E k \in DOMAIN pendingSteps : k # out[j].step /\ ~IsCompleted(pendingSteps[k])

(***************************************************************************)
(* Claims about the indexer and the embedding cache (SpecIndex).           *)
(***************************************************************************)
\* the file on disk is the text that was chunked when the file was indexed
Unmodified(rel) ==
    /\ disk[rel].readable
    /\ rel \in DOMAIN fileChunks
    /\ chunkFile(disk[rel].text, rel) = fileChunks[rel]

RecordsOf(db, rel) ==
    LET Of(record) == record.metadata.filePath = rel
    IN  SelectSeq(db, Of)

\* a generateEmbedding(text) invocation is waiting for the provider
InFlight(text) ==
    \/ pass.pc = "embedding" /\ pass.chunks[pass.chunk].content = text
    \/ \E i \in QuerySlots : queries[i].pc = "embedding" /\ queries[i].query = text

QueriesInFlight(text) ==
    {i \in QuerySlots : queries[i].pc = "embedding" /\ queries[i].query = text}

\* the step calls generateEmbedding for a chunk of the file or adds a record for it
Reprocessed(rel) ==
    \/ \E j \in DOMAIN out' :
          /\ out'[j].op \in {"generateEmbedding", "embeddings.create", "vectorDB.add"}
          /\ out'[j].rel = rel
    \/ RecordsOf(vectorDB', rel) # RecordsOf(vectorDB, rel)

\* C5: a pass over a file that an earlier pass indexed and that was not
\* modified since sends no request to the embedding provider for that file
\* and adds no record for it to the vector index: a step that does either
\* for an indexed file finds the file modified.
C5_UnmodifiedIndexedFileCostsNothing ==
    [][\A rel \in indexedFiles : Reprocessed(rel) => ~Unmodified(rel)]_vars

C5_Witness ==
    \E j \in DOMAIN out :
        /\ out[j].op = "skip"
        /\ out[j].rel \in indexedFiles
        /\ Unmodified(out[j].rel)
        /\ RecordsOf(vectorDB, out[j].rel) # <<>>

\* C6: a pass skips a file only when its content is the content that was
\* indexed: a file whose content changed after an earlier pass is not skipped
\* by the next pass.
C6_SkippedOnlyWhenUnchanged ==
    \A j \in DOMAIN out : out[j].op = "skip" => Unmodified(out[j].rel)

\* C7: once the provider has returned an embedding for a text, no further
\* request is sent for that text: of two successive generateEmbedding calls
\* with the same text whose first request succeeded, only the first reaches
\* the provider.
C7_NoRequestOnceEmbedded ==
    \A j \in DOMAIN out :
        out[j].op = "embeddings.create"
            => out[j - 1].op = "generateEmbedding" /\ out[j - 1].text \notin providerCalls.ok

C7_Witness ==
    \E j \in DOMAIN out :
        /\ out[j].op = "cacheHit"
        /\ out[j].text \in providerCalls.ok
        /\ out[j].vector = ProviderEmbedding(truncateText(out[j].text, MaxTokens, encoder))

\* C7 as stated: a generateEmbedding call that starts when no call for the same
\* text is in flight sends a request only if none was ever sent for that text,
\* whatever became of the earlier request.
C7_AtMostOneRequestWhateverTheOutcome ==
    [][\A j \in DOMAIN out' :
          (out'[j].op = "embeddings.create" /\ ~InFlight(out'[j - 1].text))
              => out'[j - 1].text \notin providerCalls.sent]_vars

\* C8: at most one generateEmbedding call per text is waiting for the provider
\* at any time.
C8_OneRequestInFlightPerText ==
    \A text \in providerCalls.sent :
        Cardinality(QueriesInFlight(text))
          + (IF pass.pc = "embedding" /\ pass.chunks[pass.chunk].content = text THEN 1 ELSE 0)
          <= 1

\* C9: an embedding that generateEmbedding returns from its cache for a text
\* is the embedding that was computed for that text.
C9_CacheHitReturnsOwnEmbedding ==
    \A j \in DOMAIN out :
        out[j].op = "cacheHit"
            => out[j].vector.of = truncateText(out[j].text, MaxTokens, encoder)

\* C10: when the provider fails, generateEmbedding returns the all-zero vector
\* of the provider's dimension instead of throwing, and a pass whose request
\* failed stores that vector for the chunk and goes on with every remaining
\* chunk of the file and every remaining file of the walk.
C10_FailedEmbeddingDoesNotStopThePass ==
    [][\A j \in DOMAIN out' :
          out'[j].op = "providerError" =>
              /\ out'[j + 1].op = "fallback"
              /\ out'[j + 1].vector.dim = EmbeddingDim
              /\ out'[j + 1].vector.zero
              /\ out'[j].rel # QueryCaller =>
                    LET rel == pass.files[pass.at]
                        added == (Len(vectorDB) + 1)..Len(vectorDB')
                        going == pass'.pc = "embedding" /\ pass'.files = pass.files
                    IN  /\ out'[j].rel = rel
                        /\ added # {}
                        /\ vectorDB'[Len(vectorDB) + 1].id = ChunkId(rel, pass.chunks[pass.chunk])
                        /\ vectorDB'[Len(vectorDB) + 1].vector = out'[j + 1].vector
                        /\ \A n \in (pass.chunk + 1)..Len(pass.chunks) :
                              \/ \E m \in added : vectorDB'[m].id = ChunkId(rel, pass.chunks[n])
                              \/ going /\ pass'.at = pass.at /\ pass'.chunks = pass.chunks
                                       /\ pass'.chunk <= n
                        /\ \A m \in (pass.at + 1)..Len(pass.files) :
                              \/ going /\ pass'.at <= m
                              \/ \E e \in Range(out') :
                                    /\ e.rel = pass.files[m]
                                    /\ e.op \in {"skip", "readError", "indexedFiles.add"}]_vars

C10_Witness ==
    /\ pass.pc = "embedding"
    /\ \E j \in DOMAIN out : out[j].op = "providerError" /\ out[j].rel # QueryCaller
    /\ \E j \in DOMAIN out : out[j].op = "vectorDB.add" /\ out[j].vector = ZeroVector

(***************************************************************************)
(* Claims about chunkFile (SpecChunk).                                     *)
(***************************************************************************)
\* N: the number of lines of the chunked text
LineCount == Len(Split(chunkInput))

\* the lines of a chunk, as a set of line numbers
LinesOf(chunk) == chunk.startLine..chunk.endLine

\* C11: the chunks of a text of N lines cover the lines 0..N-1 without a gap:
\* every chunk lies within 0..N-1, every line lies in a chunk, the first chunk
\* starts at line 0, the last ends at line N-1, and chunking the text again
\* gives the same chunks.
C11_ChunksCoverEveryLine ==
    \A c \in DOMAIN chunked :
        LET chunks == chunked[c]
        IN  /\ chunks # <<>>
            /\ chunks[1].startLine = 0
            /\ chunks[Len(chunks)].endLine = LineCount - 1
            /\ \A k \in DOMAIN chunks :
                  0 <= chunks[k].startLine /\ chunks[k].startLine <= chunks[k].endLine
                                           /\ chunks[k].endLine <= LineCount - 1
            /\ \A line \in 0..(LineCount - 1) : \E k \in DOMAIN chunks : line \in LinesOf(chunks[k])
            /\ chunks = chunked[1]

C11_Witness ==
    /\ Len(chunked) = MaxChunkCalls
    /\ Len(chunked[1]) >= 2
    /\ LineCount > 100

\* C12: every chunk but the last has exactly 50 lines, and two consecutive
\* chunks of which the second is not the last share exactly 10 lines: the
\* second starts at the first one's end line - 10 + 1.
C12_WindowsOfFiftyOverlapByTen ==
    \A c \in DOMAIN chunked :
        LET chunks == chunked[c]
        IN  /\ \A k \in 1..(Len(chunks) - 1) : Cardinality(LinesOf(chunks[k])) = 50
            /\ \A k \in 1..(Len(chunks) - 2) :
                  /\ chunks[k + 1].startLine = chunks[k].endLine - 10 + 1
                  /\ Cardinality(LinesOf(chunks[k]) \cap LinesOf(chunks[k + 1])) = 10

C12_Witness ==
    /\ chunked # <<>>
    /\ Len(chunked[1]) >= 3
    /\ Cardinality(LinesOf(chunked[1][1]) \cap LinesOf(chunked[1][2])) = 10

\* C13: the chunks are the windows that start at lines 0, 40, 80, ..., each 50
\* lines long or cut at the last line, up to and including the first window
\* that reaches the last line; a text of fewer than 50 lines gives one chunk
\* over the whole text, a text of 120 lines the chunks 0-49, 40-89 and 80-119.
C13_WindowsStartEveryFortyLines ==
    \A c \in DOMAIN chunked :
        LET chunks == chunked[c]
            Range3(k) == <<chunks[k].startLine, chunks[k].endLine>>
        IN  /\ \A k \in DOMAIN chunks :
                  /\ chunks[k].startLine = 40 * (k - 1)
                  /\ chunks[k].endLine = Min(40 * (k - 1) + 49, LineCount - 1)
                  /\ (40 * (k - 1) + 50 >= LineCount) <=> (k = Len(chunks))
            /\ LineCount < 50 => Len(chunks) = 1 /\ Range3(1) = <<0, LineCount - 1>>
            /\ LineCount = 120 =>
                  /\ Len(chunks) = 3
                  /\ <<Range3(1), Range3(2), Range3(3)>> = <<<<0, 49>>, <<40, 89>>, <<80, 119>>>>

C13_Witness ==
    /\ LineCount = 120
    /\ chunked # <<>>
    /\ Len(chunked[1]) = 3

(***************************************************************************)
(* Properties of the parser.                                               *)
(***************************************************************************)
\* the steps section of the parsed response: the tokens between the tags
Section ==
    LET stepsMatch == StepsMatch(parseInput)
    IN  IF stepsMatch = <<0, 0>> THEN <<>>
        ELSE SubSeq(parseInput, stepsMatch[1] + 1, stepsMatch[2] - 1)

SectionBlocks == {k \in DOMAIN Section : Section[k].tag = "step"}

Holds(block, tag) == \E j \in DOMAIN block.body : block.body[j].tag = tag

Declares(block, type) == Action(type) \in Range(block.body)

\* a block whose terminal action has no command
Commandless(block) == Declares(block, "terminal") /\ ~Holds(block, "command")

\* a block with a description and the payload of its action type
WellFormed(block) ==
    /\ Holds(block, "description")
    /\ \/ Declares(block, "terminal") /\ Holds(block, "command")
       \/ Declares(block, "file") /\ Holds(block, "path") /\ Holds(block, "content")
       \/ Declares(block, "folder") /\ Holds(block, "path")

\* what the block yields when it is the only block of a response
Alone(block) == parseSteps(<<StepsOpen, block, StepsClose>>)

\* where the steps of a block are in a result
YieldedAt(steps, block) == {j \in DOMAIN steps : steps[j].id = <<block.attr>>}

ChatEvents(op) == {j \in DOMAIN chatOut : chatOut[j].op = op}

NoStepsSection(assistantMessage) == StepsMatch(assistantMessage) = <<0, 0>>

\* C15: for a model response without a steps section, query returns an empty
\* steps list and the whole response as the explanation, and the pending
\* steps of the session become empty.
C15_NoStepsSectionEmptiesThePlan ==
    \A j \in ChatEvents("query.return") :
        NoStepsSection(chatOut[j].arg.response) =>
            /\ chatOut[j].arg.steps = <<>>
            /\ chatOut[j].arg.content = chatOut[j].arg.response
            /\ pendingSteps = <<>>

\* a response without a steps section arrived while steps were pending
C15_Witness ==
    \E j \in ChatEvents("query.return") :
        /\ NoStepsSection(chatOut[j].arg.response)
        /\ chatOut[j].arg.pending # <<>>
        /\ pendingSteps = <<>>

\* no turn is between its prompt and the model's answer
BetweenQueries == \A turn \in DOMAIN turns : turns[turn].pc # "asking"

\* a sequence of user/assistant exchanges
Exchanges(history) ==
    \A j \in DOMAIN history : history[j].role = IF j % 2 = 1 THEN "user" ELSE "assistant"

\* C16: every model call sends at most the last 10 entries of the history
\* plus the current turn, and the conversation retained between queries is
\* at most the last 5 user/assistant exchanges.
C16_HistoryBoundedToFiveExchanges ==
    /\ \A j \in ChatEvents("messages.create") :
           /\ Len(chatOut[j].arg) <= HistoryLimit + 1
           /\ chatOut[j].arg[Len(chatOut[j].arg)].role = "user"
    /\ BetweenQueries =>
           /\ Len(claudeMessages) <= HistoryLimit
           /\ Exchanges(claudeMessages)

\* the entries of the chat view a turn wrote, of one kind
ShownBy(turn, kind) ==
    {j \in DOMAIN messages : messages[j].turn = turn /\ messages[j].kind = kind}

\* C17: when the model call of a query fails, the placeholder of that turn
\* is replaced by the error message and the pending steps are left as they
\* were.
C17_FailedTurnShowsItsError ==
    \A j \in ChatEvents("query.throw") :
        /\ ShownBy(chatOut[j].turn, "placeholder") = {}
        /\ ShownBy(chatOut[j].turn, "error") # {}
        /\ pendingSteps = chatOut[j].arg.pending

(***************************************************************************)
(* Properties of the retrieval.                                            *)
(***************************************************************************)
Searches(events) == {j \in DOMAIN events : events[j].op = "vectorDB.search"}

\* the index after a step holds the records it held before, in their places
OnlyGrows(before, after) ==
    Len(before) <= Len(after) /\ SubSeq(after, 1, Len(before)) = before

\* C18: whatever the interleaving of getRelevantCode calls with a pass, the
\* records of the vector index only grow in number and none is removed or
\* replaced, and each retrieval returns at most maxChunks records, all of
\* them in the index before the search.
C18_IndexOnlyGrowsAndSearchIsBounded ==
    [][/\ OnlyGrows(vectorDB, vectorDB')
       /\ \A j \in Searches(out') :
              /\ Len(out'[j].results) <= MaxChunks
              /\ Range(out'[j].results) \subseteq Range(vectorDB)]_vars

\* a retrieval ran while the pass was waiting for an embedding, on an index
\* of more than maxChunks records, and returned maxChunks of them
C18_Witness ==
    /\ pass.pc = "embedding"
    /\ Len(vectorDB) > MaxChunks
    /\ \E j \in Searches(out) : Len(out[j].results) = MaxChunks

(***************************************************************************)
(* Properties of concurrent executions.                                    *)
(***************************************************************************)
\* the invocation is between the preview of its file step and its end
ExecutingFile(i) == inv[i].pc # "idle" /\ inv[i].kind = "file"

\* C19: two different file steps of the plan with the same filePath are
\* never in execution at the same time: one finishes before the other
\* starts its preview or its write.
C19_SamePathStepsAreSerialized ==
    \A i, j \in Slots :
        (/\ i # j
         /\ ExecutingFile(i)
         /\ ExecutingFile(j)
         /\ inv[i].step # inv[j].step)
            => pendingSteps[inv[i].step].filePath # pendingSteps[inv[j].step].filePath

(***************************************************************************)
(* Properties of a pass over a workspace with a file that cannot be read.  *)
(***************************************************************************)
\* the last step ended a pass
PassDone == pass.pc = "idle" /\ \E j \in DOMAIN out : out[j].op = "indexed"

\* the file was chunked, each chunk was embedded and inserted, and the file
\* was marked indexed
Processed(rel) ==
    /\ rel \in DOMAIN fileChunks
    /\ fileChunks[rel] = chunkFile(disk[rel].text, rel)
    /\ \A n \in DOMAIN fileChunks[rel] :
           \E m \in DOMAIN vectorDB :
               /\ vectorDB[m].id = ChunkId(rel, fileChunks[rel][n])
               /\ vectorDB[m].vector.dim = EmbeddingDim
    /\ rel \in indexedFiles

\* C20: a file that cannot be read does not abort the pass: at the end of
\* the pass every other indexable file has been chunked, embedded, inserted
\* and marked indexed, and the failed file is not marked indexed.
C20_UnreadableFileDoesNotStopThePass ==
    (PassDone /\ \E rel \in Range(findAllCodeFiles(Tree)) : ~disk[rel].readable) =>
        \A rel \in Range(findAllCodeFiles(Tree)) :
            IF disk[rel].readable THEN Processed(rel) ELSE rel \notin indexedFiles

\* the first file of the walk could not be read, and the pass went on to
\* index the file after it
C20_Witness ==
    /\ PassDone
    /\ ~disk["a.ts"].readable
    /\ "src/b.ts" \in indexedFiles
    /\ vectorDB # <<>>

(***************************************************************************)
(* Properties of indexWorkspace without a workspace, and of the metadata.  *)
(***************************************************************************)
\* the last step was an indexWorkspace call that threw for want of a root
NoWorkspaceError(events) ==
    /\ Len(events) = 2
    /\ events[1].op = "throw"
    /\ events[2].op = "showErrorMessage"

\* the step is a call of indexWorkspace: a call that is not a query
IndexWorkspaceCalled ==
    /\ pass.pc = "idle"
    /\ calls' = calls + 1
    /\ out' # <<>>
    /\ out'[1].rel # QueryCaller

\* C21: indexWorkspace without a workspace root fails with the no-workspace
\* error before any work: the vector index, the indexed files, the chunks of
\* the files and the project metadata are what they were, and no file is
\* read, chunked or embedded.
C21_NoWorkspaceNoWork ==
    [][(~workspaceOpen /\ IndexWorkspaceCalled) =>
           /\ NoWorkspaceError(out')
           /\ UNCHANGED <<vectorDB, indexedFiles, fileChunks, projectMetadata,
                          embeddingCache, providerCalls, pass>>]_vars

\* indexWorkspace was called without a workspace and reported the error
C21_Witness ==
    /\ ~workspaceOpen
    /\ NoWorkspaceError(out)
    /\ calls > 0

\* the last step began a pass: the project files are as the pass read them
PassBegan == out # <<>> /\ out[1].op = "indexWorkspace"

Present(files, name) == files[name] \notin {"absent", "unreadable"}

\* the keys of the well-known project files a pass could read (and parse,
\* for package.json)
ReadableProjectKeys(files) ==
    {c \in Range(ConfigFiles) : Present(files, c)}
        \cup (IF Present(files, "package.json") /\ ParseJson(files["package.json"]).parsed
              THEN {"packageJson"} ELSE {})

\* C22: a pass replaces the project metadata wholesale: they hold an entry
\* for exactly the well-known project files present and readable during
\* that pass, and none for a file of an earlier pass that is now absent.
C22_MetadataReplacedWholesale ==
    PassBegan => DOMAIN projectMetadata = ReadableProjectKeys(projectFiles)

(***************************************************************************)
(* Properties of the walk.                                                 *)
(***************************************************************************)
EntryOf(rel) == CHOOSE entry \in Range(Tree) : entry.rel = rel

\* the files the indexer has walked to, chunked, inserted or marked
Touched ==
    DOMAIN fileChunks \cup indexedFiles
        \cup {vectorDB[m].metadata.filePath : m \in DOMAIN vectorDB}
        \cup (IF pass.pc = "idle" THEN {} ELSE Range(pass.files))

\* C23: every file indexWorkspace walks to, chunks or inserts has an
\* extension of the allow-list and no directory on its path, at any depth,
\* named node_modules, .git, dist, build or out.
C23_OnlyCodeFilesOutsidePrunedDirectories ==
    \A rel \in Touched :
        /\ EntryOf(rel).ext \in CodeExtensions
        /\ \A j \in DOMAIN EntryOf(rel).dirs : EntryOf(rel).dirs[j] \notin PrunedDirs

\* a pass ended on a workspace with a file in a pruned directory below src
\* and indexed the file next to that directory
C23_Witness ==
    /\ pass.pc = "idle"
    /\ "src/b.ts" \in indexedFiles
    /\ \E entry \in Range(Tree) : Len(entry.dirs) > 1 /\ entry.dirs[2] \in PrunedDirs
    /\ \E m \in DOMAIN vectorDB : vectorDB[m].metadata.filePath = "src/b.ts"

(***************************************************************************)
(* Properties of getRelevantCode as a reader of the index.                 *)
(***************************************************************************)
\* the step is a step of getRelevantCode: its call, or the answer of the
\* provider to its request
QueryStep == out' # <<>> /\ out'[1].rel = QueryCaller

\* C24: getRelevantCode never indexes: its steps leave the vector index, the
\* indexed files, the chunks of the files, the project metadata and the pass
\* as they were, the embedding cache gains at most one key, and a search on
\* the empty index of a workspace not yet indexed returns nothing.
C24_QueryLeavesTheIndexAlone ==
    [][QueryStep =>
           /\ UNCHANGED <<vectorDB, indexedFiles, fileChunks, projectMetadata, pass>>
           /\ DOMAIN embeddingCache \subseteq DOMAIN embeddingCache'
           /\ Cardinality(DOMAIN embeddingCache' \ DOMAIN embeddingCache) <= 1
           /\ \A j \in Searches(out') : vectorDB = <<>> => out'[j].results = <<>>]_vars

\* a query ran to its search before any pass, and found nothing
C24_Witness ==
    /\ indexedFiles = {}
    /\ vectorDB = <<>>
    /\ pass.pc = "idle"
    /\ \E j \in Searches(out) : out[j].results = <<>>

(***************************************************************************)
(* Consistency of the index and the indexed files.                         *)
(***************************************************************************)
RecordIds(db) == {db[j].id : j \in DOMAIN db}

\* every chunk chunkFile produced for the file has its record in the index
FullyStored(rel) ==
    /\ rel \in DOMAIN fileChunks
    /\ \A j \in DOMAIN fileChunks[rel] : ChunkId(rel, fileChunks[rel][j]) \in RecordIds(vectorDB)

\* C25: at every point where a pass is suspended or finished, every file
\* marked indexed has all its chunks in the index, and the file the pass is
\* at, whose chunks are stored in part only, is not marked indexed.
C25_IndexedFilesAreFullyStored ==
    /\ \A rel \in indexedFiles : FullyStored(rel)
    /\ pass.pc = "embedding" => pass.files[pass.at] \notin indexedFiles

\* the pass waits for the embedding of a later chunk of a file, after it
\* has marked an earlier file indexed
C25_Witness ==
    /\ pass.pc = "embedding"
    /\ pass.chunk > 1
    /\ ~FullyStored(pass.files[pass.at])
    /\ indexedFiles # {}

(***************************************************************************)
(* Properties of the pending steps over a session.                         *)
(***************************************************************************)
\* the step is the return of the model call of a turn
ReturnStep(turn) ==
    /\ turns[turn].pc = "asking"
    /\ turns'[turn].pc = "done"
    /\ chatOut'[1].op = "query.return"

\* the step is a clearChat
ClearStep == out' = <<>> /\ turns' = turns /\ chatOut' = <<ChatEvent("updateChat", 0, 0)>>

\* the step is a step of an executeStep invocation
ExecStep == out' # <<>> /\ "i" \in DOMAIN out'[1]

\* the list holds the same steps, whatever their ids have become
SameSteps ==
    /\ Len(pendingSteps') = Len(pendingSteps)
    /\ \A k \in DOMAIN pendingSteps :
          [pendingSteps'[k] EXCEPT !.id = <<>>] = [pendingSteps[k] EXCEPT !.id = <<>>]

\* C26: when a query returns, the pending steps are exactly the steps parsed
\* from its response; after clearChat the messages and the pending steps
\* are empty; a step of executeStep neither adds nor removes a step; and
\* nothing but a returning query or clearChat changes the steps of the list.
C26_PlanReplacedOnlyByQueryOrClear ==
    [][/\ \A turn \in Turns :
             ReturnStep(turn) => pendingSteps' = parseSteps(chatOut'[1].arg.response)
       /\ ClearStep => messages' = <<>> /\ pendingSteps' = <<>>
       /\ ExecStep => SameSteps
       /\ ~SameSteps => ClearStep \/ \E turn \in Turns : ReturnStep(turn)]_vars

\* a query has returned a plan in the place of an earlier plan, one step of
\* which is still being executed
C26_Witness ==
    /\ chatOut # <<>>
    /\ chatOut[1].op = "query.return"
    /\ chatOut[1].arg.pending # <<>>
    /\ pendingSteps = parseSteps(PlannedFile)
    /\ \E i \in Slots : inv[i].object # <<>>

(***************************************************************************)
(* The embedding cache and truncation.                                     *)
(***************************************************************************)
\* the text generateEmbedding submits for a text
Submitted(text) == truncateText(text, MaxTokens, encoder)

\* C27: the cache is keyed by the submitted text: no request is sent for a
\* submitted text that is the truncation of a text whose embedding the
\* provider has already returned.
C27_CacheKeyedBySubmittedText ==
    \A j \in DOMAIN out :
        out[j].op = "embeddings.create"
            => \A text \in providerCalls.ok : Submitted(text) # out[j].text

(***************************************************************************)
(* Overlapping executions of one step.                                     *)
(***************************************************************************)
\* invocation i reports op in this step
Reports(i, op) == \E j \in DOMAIN out' : out'[j].i = i /\ out'[j].op = op

\* C28: of the invocations of executeStep that overlap on one step, one
\* performs the side effect and completes the step: an invocation that was
\* confirmed writes the file, or marks the step completed, only if the step
\* still carries the id the invocation was called with, and no other
\* invocation in flight has written the file of that step.
C28_OverlappingExecutionsActOnce ==
    [][\A i \in Slots :
           /\ inv[i].pc \in {"access", "open"}
           /\ Reports(i, "writeFileSync") \/ Reports(i, "completed")
           => /\ pendingSteps[inv[i].step].id = inv[i].id
              /\ \A j \in Slots \ {i} :
                    ~(inv[j].pc = "open" /\ inv[j].step = inv[i].step)]_vars

(***************************************************************************)
(* Overlapping queries and clearChat.                                      *)
(***************************************************************************)
\* every handleUserQuery that was started has returned
NoQueryInFlight == \A turn \in DOMAIN turns : turns[turn].pc \in {"idle", "done"}

\* C29: once no query is in flight, no 'Thinking...' placeholder is left in
\* the chat view, and the answer or the error of a turn stands where its
\* placeholder was pushed: right after the user message of that turn.
C29_EachTurnReplacesItsOwnPlaceholder ==
    NoQueryInFlight =>
        \A k \in DOMAIN messages :
            /\ messages[k].kind # "placeholder"
            /\ messages[k].kind \in {"answer", "error"} /\ messages[k].turn # 0
                   => /\ k > 1
                      /\ messages[k - 1].kind = "user"
                      /\ messages[k - 1].turn = messages[k].turn

\* the step is the sendQuery message of a new query
NewQueryStep == calls' = calls + 1

\* C30: once clearChat has emptied the chat view and the pending steps, they
\* stay empty until a new query is submitted, whatever query was in flight
\* when the chat was cleared.
C30_ClearedChatStaysEmpty ==
    [][messages = <<>> /\ pendingSteps = <<>> /\ ~NewQueryStep
           => messages' = <<>> /\ pendingSteps' = <<>>]_vars

(***************************************************************************)
(* Properties of the conversation ClaudeService retains.                   *)
(***************************************************************************)
\* C31: the history every model call sends begins with a user entry,
\* alternates user and assistant entries, and ends with the user entry of
\* the current turn.
C31_SentHistoryAlternates ==
    \A j \in ChatEvents("messages.create") :
        /\ Exchanges(chatOut[j].arg)
        /\ chatOut[j].arg[Len(chatOut[j].arg)].role = "user"

\* the step is the failure of the model call of a turn, no other query
\* being in flight
FailedAloneStep(turn) ==
    /\ turns[turn].pc = "asking"
    /\ turns'[turn].pc = "done"
    /\ chatOut'[1].op = "query.throw"
    /\ \A other \in Turns \ {turn} : turns[other].pc \in {"idle", "done"}

\* C32: a query whose model call fails leaves no trace in the retained
\* history: after the failure the history does not end with the user entry
\* of the failed turn.
C32_FailedCallLeavesHistoryAlone ==
    [][\A turn \in Turns :
           FailedAloneStep(turn)
               => \/ claudeMessages' = <<>>
                  \/ claudeMessages'[Len(claudeMessages')].role = "assistant"]_vars

(***************************************************************************)
(* The embedding cache and the fallback.                                   *)
(***************************************************************************)
\* C33: the cache holds only embeddings the provider returned, never the
\* zero vector of the fallback, and a generateEmbedding call for a text
\* under whose key the provider has returned nothing sends a request.
C33_FallbackIsNeverCached ==
    /\ \A k \in DOMAIN embeddingCache :
           /\ ~embeddingCache[k].zero
           /\ \E text \in providerCalls.ok :
                  /\ k = getCacheKey(text)
                  /\ embeddingCache[k] = ProviderEmbedding(Submitted(text))
    /\ \A j \in DOMAIN out :
           /\ out[j].op = "generateEmbedding"
           /\ \A text \in providerCalls.ok : getCacheKey(text) # getCacheKey(out[j].text)
           => out[j + 1].op = "embeddings.create"

\* every request for Aa so far has failed, and a new call for Aa has sent
\* a request again
C33_Witness ==
    /\ workspaceOpen
    /\ calls = 2
    /\ providerCalls = [sent |-> {Aa}, ok |-> {}]
    /\ embeddingCache = <<>>
    /\ pass.pc = "idle"
    /\ Cardinality(QueriesInFlight(Aa)) = 1
    /\ Len(out) = 2
    /\ out[1].op = "generateEmbedding" /\ out[1].text = Aa
    /\ out[2].op = "embeddings.create"

(***************************************************************************)
(* Overlapping passes and the ids of the index.                            *)
(***************************************************************************)
\* C34: no two records of the vector index carry the same chunk id,
\* however many passes have run and however they overlapped.
C34_ChunkIdInsertedOnce ==
    \A m, n \in DOMAIN vectorDB : m # n => vectorDB[m].id # vectorDB[n].id

(***************************************************************************)
(* Steps whose payload is missing.                                         *)
(***************************************************************************)
\* what executeStep reports about a step without calling a collaborator
ReportOnlyOps == {"executeStep", "showErrorMessage"}

\* C35: a step whose payload is missing (a terminal step with an empty
\* command, a file step without filePath or fileContent, a folder step
\* without filePath) never reaches a collaborator: executeStep on it calls
\* no command runner, preview, write or mkdir, reports an error in the same
\* run, and the step keeps its id (it is not marked completed).
C35_MissingPayloadNeverDispatched ==
    [][\A k \in DOMAIN pendingSteps :
          MissingPayload(pendingSteps[k])
              => /\ k \in DOMAIN pendingSteps'
                 /\ pendingSteps'[k] = pendingSteps[k]
                 /\ \A j \in DOMAIN out' :
                       out'[j].step = k
                           => /\ out'[j].op \in ReportOnlyOps
                              /\ Reports(out'[j].i, "showErrorMessage")]_vars

\* executeStep has just refused a file step that has a path and no content,
\* after the other step of the plan was completed
C35_Witness ==
    /\ Len(out) = 2
    /\ out[1].op = "executeStep"
    /\ out[1].step > 0
    /\ pendingSteps[out[1].step].actionType = "file"
    /\ pendingSteps[out[1].step].filePath # ""
    /\ pendingSteps[out[1].step].fileContent = ""
    /\ pendingSteps[out[1].step].id = out[1].arg
    /\ out[2] = Event("showErrorMessage", out[1].i, out[1].step,
                       "Missing file path or content for file action")
    /\ \E k \in DOMAIN pendingSteps : IsCompleted(pendingSteps[k])

====
